---------------------------- MODULE Spec2Model ----------------------------
(***************************************************************************)
(* A model of the audit / quality-control core of CoreIndex: the dispute   *)
(* decision, the canonical-stream comparator with its Merkle fast path,    *)
(* the canonicalizer, the deterministic sampling engine, the GF(2) proof   *)
(* verifier and the ULP utility.                                           *)
(*                                                                         *)
(* The components are functions without shared state, so every component   *)
(* has a specification of its own (SpecDispute, SpecCompare, ...): its     *)
(* Init draws the inputs of the calls, its actions are the calls, and the  *)
(* variables hold what the calls returned and what they did to the objects *)
(* handed to them (stream positions, the call log).  The variables of the  *)
(* other components stay at their idle values.                             *)
(***************************************************************************)
EXTENDS Integers, Sequences, FiniteSets, TLC

VARIABLES
    d_n,        \* dispute: n_checked of the dispute event
    d_eps0,     \* dispute: eps0, a rational <<num, den>>
    d_alpha,    \* dispute: alpha, a rational <<num, den>>
    d_via,      \* dispute: "direct" (decision) or "endpoint" (/qc/dispute/decide)
    d_log,      \* dispute: x_mismatch |-> outcome, for the calls made so far
    stream_a,   \* the first stream object handed to the hasher / comparator
    stream_b,   \* the second stream object
    m_chunk,    \* merkle: the chunk_size argument of merkle_stream
    m_res,      \* merkle: "a" / "b" |-> what merkle_stream returned for it
    c_req,      \* compare: [schema_id, mode, rel_tol, max_ulp] of the call
    c_res,      \* compare: what the call returned (status "none" before it)
    c_trace,    \* compare: what the call did: entry point, roots, passes run
    cz_a,       \* canonicalize: the raw rows of the first input
    cz_b,       \* canonicalize: the raw rows of the second input
    cz_out,     \* canonicalize: "a" / "b" |-> what the call returned for it
    s_key,      \* sampling: the environment's QC_MASTER_KEY ("" when unset)
    s_req,      \* sampling: the arguments shared by the calls
    s_prf,      \* sampling: seed |-> the DRBG outputs of the seed drawn so far
    s_log,      \* sampling: the calls made so far, with what they returned
    ci,         \* sampling: one call of choose_indices, its loop step by step
    p_rows,     \* proof verifier: matrix_rows, a list of strings
    p_vec,      \* proof verifier: vector_bits, a string
    p_out,      \* proof verifier: "verify" / "hash" |-> what the call returned
    u_a,        \* ulp: the first float
    u_b,        \* ulp: the second float
    u_out       \* ulp: <<>>, or <<d>> once ulp_distance(u_a, u_b) returned d

disputeVars == <<d_n, d_eps0, d_alpha, d_via, d_log>>

streamVars == <<stream_a, stream_b>>

merkleVars == <<m_chunk, m_res>>

compareVars == <<c_req, c_res, c_trace>>

canonVars == <<cz_a, cz_b, cz_out>>

samplingVars == <<s_key, s_req, s_prf, s_log, ci>>

proofVars == <<p_rows, p_vec, p_out>>

ulpVars == <<u_a, u_b, u_out>>

vars ==
    <<disputeVars, streamVars, merkleVars, compareVars, canonVars, samplingVars,
      proofVars, ulpVars>>

(***************************************************************************)
(* Helpers                                                                 *)
(***************************************************************************)
RECURSIVE Pow(_, _)
Pow(b, e) == IF e = 0 THEN 1 ELSE b * Pow(b, e - 1)

Max(i, j) == IF i >= j THEN i ELSE j

Min(i, j) == IF i <= j THEN i ELSE j

\* A rational is <<num, den>> with den > 0.
RatGeq(p, q) == p[1] * q[2] >= q[1] * p[2]

RatLess(p, q) == p[1] * q[2] < q[1] * p[2]

(***************************************************************************)
(* Dispute decision  (apps/api/app/services/qc/dispute.py)                 *)
(*                                                                         *)
(* eps0 and alpha are floats in the code.  The model draws them from       *)
(* dyadic rationals and keeps n small, so that every power, product and    *)
(* sum of binom_cdf is exact in binary64 and the rational arithmetic below *)
(* is the arithmetic the code performs.                                    *)
(***************************************************************************)
MaxN == 4

EpsSet == {<<1, 4>>, <<1, 2>>, <<3, 4>>}

AlphaSet == {<<1, 4>>, <<1, 2>>, <<3, 4>>, <<1, 1>>}

NRange == -1 .. MaxN

XRange == -1 .. (MaxN + 1)

\* math.comb
RECURSIVE comb(_, _)
comb(n, k) ==
    IF k > n THEN 0
    ELSE IF k = 0 THEN 1
    ELSE (comb(n, k - 1) * (n - k + 1)) \div k

\* sum(comb(n, i) * p**i * (1 - p)**(n - i) for i in range(k + 1)), over the
\* common denominator den(p)^n
RECURSIVE binom_sum(_, _, _)
binom_sum(k, n, p) ==
    IF k < 0 THEN 0
    ELSE binom_sum(k - 1, n, p)
         + comb(n, k) * Pow(p[1], k) * Pow(p[2] - p[1], n - k)

binom_cdf(k, n, p) ==
    IF k < 0 THEN <<0, 1>>
    ELSE IF k >= n THEN <<1, 1>>
    ELSE <<binom_sum(k, n, p), Pow(p[2], n)>>

\* accepts with > in the place of >=
accepts_above_alpha(eps0, alpha, x, n) == RatLess(alpha, binom_cdf(x, n, eps0))

accepts(eps0, alpha, x, n) == RatGeq(binom_cdf(x, n, eps0), alpha)

decision(x, n, eps0, alpha) ==
    IF ~accepts(eps0, alpha, x, n) THEN "reject_slash" ELSE "accept"

\* The request model of /qc/dispute/decide: Field(ge=0), Field(gt=0),
\* Field(gt=0.0), Field(gt=0.0).  A request that fails it is answered with a
\* validation error and the handler does not run.
DisputeDecisionRequest(x, n, eps0, alpha) ==
    /\ x >= 0
    /\ n > 0
    /\ eps0[1] > 0
    /\ alpha[1] > 0

qc_dispute_decide(x, n, eps0, alpha) ==
    IF ~DisputeDecisionRequest(x, n, eps0, alpha) THEN "error"
    ELSE decision(x, n, eps0, alpha)

DisputeIdle ==
    /\ d_n = 0
    /\ d_eps0 = <<1, 2>>
    /\ d_alpha = <<1, 2>>
    /\ d_via = "direct"
    /\ d_log = <<>>

\* A direct call decision(x, n, eps0, alpha).
DecisionCall ==
    /\ d_via = "direct"
    /\ \E x \in XRange \ DOMAIN d_log :
          d_log' = d_log @@ (x :> decision(x, d_n, d_eps0, d_alpha))
    /\ UNCHANGED <<d_n, d_eps0, d_alpha, d_via>>
    /\ UNCHANGED <<streamVars, merkleVars, compareVars, canonVars, samplingVars, proofVars, ulpVars>>

\* POST /qc/dispute/decide.
QcDisputeDecideCall ==
    /\ d_via = "endpoint"
    /\ \E x \in XRange \ DOMAIN d_log :
          d_log' = d_log @@ (x :> qc_dispute_decide(x, d_n, d_eps0, d_alpha))
    /\ UNCHANGED <<d_n, d_eps0, d_alpha, d_via>>
    /\ UNCHANGED <<streamVars, merkleVars, compareVars, canonVars, samplingVars, proofVars, ulpVars>>

(***************************************************************************)
(* Unbounded naturals.  A binary64 bit pattern does not fit a TLC integer, *)
(* so a natural number is a sequence of limbs, least significant first,    *)
(* base 2^13, without leading zero limbs (zero is <<>>).                   *)
(***************************************************************************)
LimbBase == 2^13

BigGet(a, i) == IF i <= Len(a) THEN a[i] ELSE 0

RECURSIVE BigNorm(_)
BigNorm(a) ==
    IF a = <<>> THEN <<>>
    ELSE IF a[Len(a)] = 0 THEN BigNorm(SubSeq(a, 1, Len(a) - 1))
    ELSE a

RECURSIVE BigFromInt(_)
BigFromInt(n) ==
    IF n = 0 THEN <<>>
    ELSE <<n % LimbBase>> \o BigFromInt(n \div LimbBase)

\* -1, 0 or 1 as a < b, a = b, a > b; i runs from the top limb down
RECURSIVE BigCmpFrom(_, _, _)
BigCmpFrom(a, b, i) ==
    IF i = 0 THEN 0
    ELSE IF BigGet(a, i) < BigGet(b, i) THEN -1
    ELSE IF BigGet(a, i) > BigGet(b, i) THEN 1
    ELSE BigCmpFrom(a, b, i - 1)

BigCmp(a, b) == BigCmpFrom(a, b, Max(Len(a), Len(b)))

BigLeq(a, b) == BigCmp(a, b) <= 0

BigMax(a, b) == IF BigCmp(a, b) >= 0 THEN a ELSE b

RECURSIVE BigAddFrom(_, _, _, _)
BigAddFrom(a, b, i, carry) ==
    IF i > Max(Len(a), Len(b))
    THEN (IF carry = 0 THEN <<>> ELSE <<carry>>)
    ELSE LET t == BigGet(a, i) + BigGet(b, i) + carry
         IN  <<t % LimbBase>> \o BigAddFrom(a, b, i + 1, t \div LimbBase)

BigAdd(a, b) == BigNorm(BigAddFrom(a, b, 1, 0))

\* a - b for a >= b
RECURSIVE BigSubFrom(_, _, _, _)
BigSubFrom(a, b, i, borrow) ==
    IF i > Len(a) THEN <<>>
    ELSE LET t == BigGet(a, i) - BigGet(b, i) - borrow
         IN  IF t < 0
             THEN <<t + LimbBase>> \o BigSubFrom(a, b, i + 1, 1)
             ELSE <<t>> \o BigSubFrom(a, b, i + 1, 0)

BigSub(a, b) == BigNorm(BigSubFrom(a, b, 1, 0))

\* a * k for 0 <= k < 2^17
RECURSIVE BigMulSmallFrom(_, _, _, _)
BigMulSmallFrom(a, k, i, carry) ==
    IF i > Len(a) THEN BigFromInt(carry)
    ELSE LET t == a[i] * k + carry
         IN  <<t % LimbBase>> \o BigMulSmallFrom(a, k, i + 1, t \div LimbBase)

BigMulSmall(a, k) == BigNorm(BigMulSmallFrom(a, k, 1, 0))

\* a * LimbBase^n
RECURSIVE BigShift(_, _)
BigShift(a, n) ==
    IF a = <<>> \/ n = 0 THEN a ELSE <<0>> \o BigShift(a, n - 1)

RECURSIVE BigMulFrom(_, _, _)
BigMulFrom(a, b, i) ==
    IF i > Len(b) THEN <<>>
    ELSE BigAdd(BigShift(BigMulSmall(a, b[i]), i - 1), BigMulFrom(a, b, i + 1))

BigMul(a, b) == BigMulFrom(a, b, 1)

\* A rational of naturals is <<num, den>> with den > 0.
BigRatLeq(p, q) == BigLeq(BigMul(p[1], q[2]), BigMul(q[1], p[2]))

BigRatMax(p, q) == IF BigRatLeq(q, p) THEN p ELSE q

BigRatZero == <<BigFromInt(0), BigFromInt(1)>>

\* A signed integer is [neg, mag]; zero has neg = FALSE.
SignedSub(x, y) ==
    IF x.neg = y.neg
    THEN (IF BigCmp(x.mag, y.mag) >= 0
          THEN [neg |-> x.neg /\ BigCmp(x.mag, y.mag) > 0, mag |-> BigSub(x.mag, y.mag)]
          ELSE [neg |-> ~x.neg, mag |-> BigSub(y.mag, x.mag)])
    ELSE [neg |-> x.neg, mag |-> BigAdd(x.mag, y.mag)]

(***************************************************************************)
(* IEEE-754 binary64 values: [sign, exp, man] with the 11-bit biased       *)
(* exponent and the 52-bit mantissa (a natural as above).  The low 63 bits *)
(* of the bit pattern are exp * 2^52 + man.                                *)
(***************************************************************************)
Two52 == BigShift(<<1>>, 4)

Two63 == BigShift(<<2^11>>, 4)

Low63(x) == BigAdd(x.man, BigShift(BigFromInt(x.exp), 4))

isnan(x) == x.exp = 2^11 - 1 /\ x.man # <<>>

IsZero(x) == x.exp = 0 /\ x.man = <<>>

\* The magnitude of a value as a multiple of 2^-52.  The values of the model
\* are zero or have a magnitude of at least 1 (exp >= 1023).
RECURSIVE BigDouble(_, _)
BigDouble(a, n) == IF n = 0 THEN a ELSE BigDouble(BigMulSmall(a, 2), n - 1)

RealMag(x) ==
    IF IsZero(x) THEN <<>>
    ELSE BigDouble(BigAdd(Two52, x.man), x.exp - 1023)

\* The value as a signed multiple of 2^-52; -0.0 and 0.0 are the same number.
RealVal(x) == [neg |-> x.sign = 1 /\ ~IsZero(x), mag |-> RealMag(x)]

\* Python's == on two floats: a NaN equals nothing, an infinity only itself.
FloatEq(x, y) ==
    IF isnan(x) \/ isnan(y) THEN FALSE
    ELSE IF x.exp = 2^11 - 1 \/ y.exp = 2^11 - 1 THEN x = y
    ELSE RealVal(x) = RealVal(y)

(***************************************************************************)
(* ULP distance  (packages/canonicalization/canonx/ulp.py)                 *)
(***************************************************************************)

\* bits = struct.unpack(">q", struct.pack(">d", x))[0]
\* return bits ^ ((bits >> 63) & 0x7FFFFFFFFFFFFFFF)
\* For a clear sign bit the mask is 0 and the result is bits.  For a set sign
\* bit the mask is 2^63 - 1: the xor turns the low 63 bits into
\* (2^63 - 1) - low and keeps the sign bit, which weighs -2^63.
_float_to_ordered_int(x) ==
    IF x.sign = 0
    THEN [neg |-> FALSE, mag |-> Low63(x)]
    ELSE LET flipped == BigSub(BigSub(Two63, <<1>>), Low63(x))
         IN  [neg |-> TRUE, mag |-> BigSub(Two63, flipped)]

ulp_distance(a, b) ==
    IF isnan(a) \/ isnan(b) THEN BigSub(Two63, <<1>>)
    ELSE IF IsZero(a) /\ IsZero(b) THEN <<>>
    ELSE SignedSub(_float_to_ordered_int(a), _float_to_ordered_int(b)).mag

(***************************************************************************)
(* Byte streams.  A stream object is [data, pos, seekable]: its content,   *)
(* the read position, and whether seek() is supported (io.BytesIO is       *)
(* seekable, a pipe or a socket is not).  The content is a sequence of     *)
(* symbols, each a tuple of strings.                                       *)
(***************************************************************************)
Stream(data, seekable) == [data |-> data, pos |-> 0, seekable |-> seekable]

\* A raw, unbuffered stream (a pipe or a socket opened without buffering):
\* one read call returns at most avail bytes, what the operating system
\* hands over at a time.
RawStream(data, avail) ==
    [data |-> data, pos |-> 0, seekable |-> FALSE, avail |-> avail]

\* in_stream.read(size): the bytes read and the position after the read.
\* A buffered stream returns size bytes unless the content ends before; a
\* raw stream may return fewer.
read(st, size) ==
    LET last == Min(st.pos + (IF "avail" \in DOMAIN st THEN Min(size, st.avail) ELSE size),
                    Len(st.data))
    IN  [bytes |-> SubSeq(st.data, st.pos + 1, last), pos |-> last]

\* stream.seek(0)
seek0(st) == [st EXCEPT !.pos = 0]

(***************************************************************************)
(* Merkle hasher  (packages/canonicalization/canonx/merkle.py)             *)
(*                                                                         *)
(* SHA-256 is modelled as collision-free: the digest of a byte string is   *)
(* the term <<"sha256", data>>.  left + right, the concatenation of two    *)
(* 32-byte digests, is the sequence <<left, right>>.                       *)
(***************************************************************************)
CHUNK_SIZE == 4

sha256(data) == <<"sha256", data>>

_hex(digest) == <<"0x", digest>>

\* merkle_pairs that carries an odd trailing node up as it is
RECURSIVE merkle_pairs_odd_carried(_, _)
merkle_pairs_odd_carried(level, i) ==
    IF i > Len(level) THEN <<>>
    ELSE IF i = Len(level) THEN <<level[i]>>
    ELSE <<sha256(<<level[i], level[i + 1]>>)>> \o merkle_pairs_odd_carried(level, i + 2)

\* One round of the while loop of merkle_from_chunks: the hashes of the
\* adjacent pairs of level, from index i on.
RECURSIVE merkle_pairs(_, _)
merkle_pairs(level, i) ==
    IF i > Len(level) THEN <<>>
    ELSE LET left == level[i]
             right == IF i + 1 <= Len(level) THEN level[i + 1] ELSE left
         IN  <<sha256(<<left, right>>)>> \o merkle_pairs(level, i + 2)

RECURSIVE merkle_levels(_)
merkle_levels(level) ==
    IF Len(level) > 1 THEN merkle_levels(merkle_pairs(level, 1))
    ELSE level[1]

merkle_from_chunks(leaf_hashes) ==
    IF leaf_hashes = <<>> THEN sha256(<<>>)
    ELSE merkle_levels(leaf_hashes)

\* The read loop of merkle_stream: the leaf hashes of the chunks read from
\* the current position to the end of the stream.
RECURSIVE merkle_leaves(_, _)
merkle_leaves(st, chunk_size) ==
    LET rest(r) ==
            IF r.bytes = <<>> THEN <<>>
            ELSE <<sha256(r.bytes)>> \o merkle_leaves([st EXCEPT !.pos = r.pos], chunk_size)
    IN  rest(read(st, chunk_size))

RECURSIVE SumLen(_)
SumLen(chunks) ==
    IF chunks = <<>> THEN 0 ELSE Len(Head(chunks)[2]) + SumLen(Tail(chunks))

\* merkle_stream returns (root_hex, leaf_hexes, num_bytes, num_chunks,
\* chunk_size) and leaves the stream at its end.
merkle_stream(st, chunk_size) ==
    LET result(leaf_hashes) ==
            [root       |-> _hex(merkle_from_chunks(leaf_hashes)),
             leaves     |-> [i \in 1 .. Len(leaf_hashes) |-> _hex(leaf_hashes[i])],
             total      |-> SumLen(leaf_hashes),
             chunks     |-> Len(leaf_hashes),
             chunk_size |-> chunk_size,
             stream     |-> [st EXCEPT !.pos = Max(st.pos, Len(st.data))]]
    IN  result(merkle_leaves(st, chunk_size))

\* The chunks a stream content is cut into: what the leaf hashes commit to.
RECURSIVE ChunksOf(_, _)
ChunksOf(data, chunk_size) ==
    IF data = <<>> THEN <<>>
    ELSE <<SubSeq(data, 1, Min(chunk_size, Len(data)))>>
         \o ChunksOf(SubSeq(data, Min(chunk_size, Len(data)) + 1, Len(data)), chunk_size)

(***************************************************************************)
(* JSON Lines text.  One symbol of a stream is one lexical unit of the     *)
(* text: an opening or closing brace, a blank, a newline, or a member      *)
(* <<key, token>> where token is the text of the value ("1", "1.0",        *)
(* "\"NaN\"", ...).  Two texts are byte-identical exactly when their       *)
(* symbol sequences are equal.                                             *)
(***************************************************************************)
LB == <<"{">>

RB == <<"}">>

WS == <<" ">>

NL == <<"\n">>

IsMember(sym) == Len(sym) = 2

Dbl(s, e, m) == [sign |-> s, exp |-> e, man |-> m]

\* Parsed JSON values: an int or a float (d is the binary64 value of
\* either), or a string.
PyInt(d) == [kind |-> "int", d |-> d, s |-> ""]

PyFloat(d) == [kind |-> "float", d |-> d, s |-> ""]

PyStr(t) == [kind |-> "str", d |-> Dbl(0, 0, <<>>), s |-> t]

\* json.loads on a value token: the binary64 value nearest to the decimal
\* text, or the string between the quotes.
json_value(tok) ==
    CASE tok = "0.0"       -> PyFloat(Dbl(0, 0, <<>>))
      [] tok = "-0.0"      -> PyFloat(Dbl(1, 0, <<>>))
      [] tok = "1"         -> PyInt(Dbl(0, 1023, <<>>))
      [] tok = "1.0"       -> PyFloat(Dbl(0, 1023, <<>>))
      [] tok = "1.2000000" -> PyFloat(Dbl(0, 1023, <<4915, 6553, 3276, 1638>>))
      [] tok = "1.2000001" -> PyFloat(Dbl(0, 1023, <<1486, 4185, 3283, 1638>>))
      [] tok = "1.25"      -> PyFloat(Dbl(0, 1023, <<0, 0, 0, 2048>>))
      [] tok = "1.0000000000000002" -> PyFloat(Dbl(0, 1023, <<1>>))
      [] tok = "\"NaN\""   -> PyStr("NaN")
      [] tok = "\"Inf\""   -> PyStr("Inf")
      [] tok = "\"a\""     -> PyStr("a")
      [] tok = "\"b\""     -> PyStr("b")

\* float(s) for a string s: the strings of the model are not numerals, so
\* it raises ValueError for each of them.
float_of_str(t) == [raised |-> TRUE, d |-> Dbl(0, 0, <<>>)]

\* The keys of the members in order of first occurrence.
RECURSIVE member_keys(_, _)
member_keys(members, i) ==
    IF i > Len(members) THEN <<>>
    ELSE IF \E j \in 1 .. (i - 1) : members[j][1] = members[i][1]
         THEN member_keys(members, i + 1)
         ELSE <<members[i][1]>> \o member_keys(members, i + 1)

\* parse_line: json.loads(line), a dict (the last member of a key wins).
\* ok is FALSE where json.loads raises.
parse_line(line) ==
    LET last(members, k) ==
            CHOOSE i \in 1 .. Len(members) :
                /\ members[i][1] = k
                /\ \A j \in (i + 1) .. Len(members) : members[j][1] # k
        dict(ok, members) ==
            [ok   |-> ok,
             keys |-> member_keys(members, 1),
             val  |-> [k \in {members[i][1] : i \in 1 .. Len(members)}
                          |-> json_value(members[last(members, k)][2])]]
        well_formed(toks) ==
            /\ Len(toks) >= 2
            /\ toks[1] = LB
            /\ toks[Len(toks)] = RB
            /\ \A i \in 2 .. (Len(toks) - 1) : IsMember(toks[i])
        loads(toks) ==
            IF well_formed(toks)
            THEN dict(TRUE, SubSeq(toks, 2, Len(toks) - 1))
            ELSE dict(FALSE, <<>>)
    IN  loads(SelectSeq(line, LAMBDA t : t # WS /\ t # NL))

\* isinstance(v, (int, float))
is_number(v) == v.kind \in {"int", "float"}

\* va == vb for two parsed values: numbers by value (1 == 1.0), strings by
\* their text, a number and a string never
py_eq(va, vb) ==
    IF is_number(va) /\ is_number(vb) THEN FloatEq(va.d, vb.d)
    ELSE IF va.kind = "str" /\ vb.kind = "str" THEN va.s = vb.s
    ELSE FALSE

\* ra == rb for two dicts
dict_eq(ra, rb) ==
    /\ DOMAIN ra.val = DOMAIN rb.val
    /\ \A k \in DOMAIN ra.val : py_eq(ra.val[k], rb.val[k])

(***************************************************************************)
(* Comparator  (packages/canonicalization/canonx/compare.py)               *)
(***************************************************************************)

\* 1e-12 in units of 2^-52, rounded up.  It is the larger of the two
\* arguments of max only when both values are zero, and then the numerator
\* of rel_err is zero.
RelErrFloor == BigFromInt(4504)

\* abs(a - b) / max(1e-12, max(abs(a), abs(b))), a rational of naturals
rel_err(a, b) ==
    <<SignedSub(RealVal(a), RealVal(b)).mag,
      BigMax(RelErrFloor, BigMax(RealMag(a), RealMag(b)))>>

_is_special(v) == v.kind = "str" /\ v.s \in {"NaN", "Inf", "-Inf"}

_coerce_json_number(x) ==
    IF is_number(x) THEN [raised |-> FALSE, d |-> x.d]
    ELSE float_of_str(x.s)

\* _same_numeric with ok = (re <= rel_tol) or (ulp <= max_ulp)
_same_numeric_either_bound(a, b, rel_tol, max_ulp) ==
    LET within(re, ulp) ==
            [raised |-> FALSE,
             ok |-> \/ BigRatLeq(re, <<BigFromInt(rel_tol[1]), BigFromInt(rel_tol[2])>>)
                    \/ BigLeq(ulp, BigFromInt(max_ulp)),
             re |-> re, ulp |-> ulp]
        numeric(fa, fb) ==
            IF fa.raised \/ fb.raised
            THEN [raised |-> TRUE, ok |-> FALSE, re |-> BigRatZero, ulp |-> <<>>]
            ELSE IF IsZero(fa.d) /\ IsZero(fb.d)
            THEN [raised |-> FALSE, ok |-> TRUE, re |-> BigRatZero, ulp |-> <<>>]
            ELSE within(rel_err(fa.d, fb.d), ulp_distance(fa.d, fb.d))
    IN  IF _is_special(a) \/ _is_special(b)
        THEN [raised |-> FALSE,
              ok |-> _is_special(a) /\ _is_special(b) /\ py_eq(a, b),
              re |-> BigRatZero, ulp |-> <<>>]
        ELSE numeric(_coerce_json_number(a), _coerce_json_number(b))

\* Returns (ok, re, ulp), or raises what _coerce_json_number raises.
_same_numeric(a, b, rel_tol, max_ulp) ==
    LET within(re, ulp) ==
            [raised |-> FALSE,
             ok |-> /\ BigRatLeq(re, <<BigFromInt(rel_tol[1]), BigFromInt(rel_tol[2])>>)
                    /\ BigLeq(ulp, BigFromInt(max_ulp)),
             re |-> re, ulp |-> ulp]
        numeric(fa, fb) ==
            IF fa.raised \/ fb.raised
            THEN [raised |-> TRUE, ok |-> FALSE, re |-> BigRatZero, ulp |-> <<>>]
            ELSE IF IsZero(fa.d) /\ IsZero(fb.d)
            THEN [raised |-> FALSE, ok |-> TRUE, re |-> BigRatZero, ulp |-> <<>>]
            ELSE within(rel_err(fa.d, fb.d), ulp_distance(fa.d, fb.d))
    IN  IF _is_special(a) \/ _is_special(b)
        THEN [raised |-> FALSE,
              ok |-> _is_special(a) /\ _is_special(b) /\ py_eq(a, b),
              re |-> BigRatZero, ulp |-> <<>>]
        ELSE numeric(_coerce_json_number(a), _coerce_json_number(b))

\* The running totals of compare_canonical_streams.
CompareStart ==
    [raised |-> FALSE, diffs |-> 0, rel_err_max |-> BigRatZero, ulp_max |-> <<>>, recs |-> 0]

\* for k in ra.keys(): ..., from the i-th key on
RECURSIVE compare_fields(_, _, _, _, _)
compare_fields(ra, rb, i, acc, req) ==
    LET numeric(r) ==
            IF r.raised THEN [acc EXCEPT !.raised = TRUE]
            ELSE compare_fields(ra, rb, i + 1,
                     [acc EXCEPT !.rel_err_max = BigRatMax(@, r.re),
                                 !.ulp_max = BigMax(@, r.ulp),
                                 !.diffs = IF r.ok THEN @ ELSE @ + 1],
                     req)
        field(va, vb) ==
            IF py_eq(va, vb) THEN compare_fields(ra, rb, i + 1, acc, req)
            ELSE IF is_number(va) \/ is_number(vb) \/ _is_special(va) \/ _is_special(vb)
            THEN numeric(_same_numeric(va, vb, req.rel_tol, req.max_ulp))
            ELSE compare_fields(ra, rb, i + 1,
                     [acc EXCEPT !.diffs = IF ~py_eq(va, vb) THEN @ + 1 ELSE @], req)
    IN  IF i > Len(ra.keys) THEN acc
        ELSE field(ra.val[ra.keys[i]], rb.val[ra.keys[i]])

\* One aligned record pair.
compare_records(ra, rb, acc, req) ==
    IF req.mode = "bit_exact"
    THEN [acc EXCEPT !.diffs = IF ~dict_eq(ra, rb) THEN @ + 1 ELSE @]
    ELSE IF DOMAIN ra.val # DOMAIN rb.val
         THEN [acc EXCEPT !.diffs = @ + 1]
         ELSE compare_fields(ra, rb, 1, acc, req)

\* stream.readline(): the bytes up to and including the next newline (or to
\* the end of the stream) and the position after them
RECURSIVE line_end(_, _)
line_end(data, i) ==
    IF i > Len(data) THEN Len(data)
    ELSE IF data[i] = NL THEN i
    ELSE line_end(data, i + 1)

readline(st) ==
    LET upto(last) == [bytes |-> SubSeq(st.data, st.pos + 1, last), pos |-> last]
    IN  upto(line_end(st.data, st.pos + 1))

\* The while loop of compare_canonical_streams, entered with the two
\* streams before the next pair of readline calls.
RECURSIVE compare_lines(_, _, _, _)
compare_lines(sa, sb, acc, req) ==
    LET compared(sa1, sb1, acc1) ==
            IF acc1.raised
            THEN [acc |-> acc1, a |-> sa1, b |-> sb1]
            ELSE compare_lines(sa1, sb1, acc1, req)
        parsed(sa1, sb1, ra, rb) ==
            IF ~ra.ok \/ ~rb.ok
            THEN [acc |-> [acc EXCEPT !.raised = TRUE], a |-> sa1, b |-> sb1]
            ELSE compared(sa1, sb1,
                          compare_records(ra, rb, [acc EXCEPT !.recs = @ + 1], req))
        lines(la, lb, sa1, sb1) ==
            IF la.bytes = <<>> /\ lb.bytes = <<>>
            THEN [acc |-> acc, a |-> sa1, b |-> sb1]
            ELSE IF la.bytes = <<>> \/ lb.bytes = <<>>
            THEN [acc |-> [acc EXCEPT !.diffs = @ + 1], a |-> sa1, b |-> sb1]
            ELSE parsed(sa1, sb1, parse_line(la.bytes), parse_line(lb.bytes))
        step(la, lb) ==
            lines(la, lb, [sa EXCEPT !.pos = la.pos], [sb EXCEPT !.pos = lb.pos])
    IN  step(readline(sa), readline(sb))

\* What a compare call hands back: status "returned" with the result dict
\* (record_count is <<n>>, or <<>> for None), or status "raised".
CompareNone ==
    [status |-> "none", equal |-> FALSE, mode |-> "", schema_id |-> "",
     record_count |-> <<>>, rel_err_max |-> BigRatZero, ulp_max |-> <<>>,
     differences |-> 0]

compare_canonical_streams(a_stream, b_stream, schema_id, mode, rel_tol, max_ulp) ==
    LET req == [schema_id |-> schema_id, mode |-> mode,
                rel_tol |-> rel_tol, max_ulp |-> max_ulp]
        result(run) ==
            [res |-> IF run.acc.raised
                     THEN [CompareNone EXCEPT !.status = "raised"]
                     ELSE [status       |-> "returned",
                           equal        |-> run.acc.diffs = 0,
                           mode         |-> mode,
                           schema_id    |-> schema_id,
                           record_count |-> <<run.acc.recs>>,
                           rel_err_max  |-> run.acc.rel_err_max,
                           ulp_max      |-> run.acc.ulp_max,
                           differences  |-> run.acc.diffs],
             a |-> run.a,
             b |-> run.b]
    IN  result(compare_lines(a_stream, b_stream, CompareStart, req))

(***************************************************************************)
(* Fast-path wrapper  (packages/canonicalization/canonx/api_compare.py)    *)
(***************************************************************************)
\* A wrapper without the shortcut: it hashes both streams and then runs the
\* line-by-line pass whatever the roots are.  C4 tells it from the wrapper.
compare_canonical_fast_no_shortcut(a, b, schema_id, mode, rel_tol, max_ulp) ==
    LET slow_path(ha, hb, r) ==
            [res |-> r.res, a |-> r.a, b |-> r.b,
             root_a |-> ha.root, root_b |-> hb.root, slow |-> TRUE]
        rewind(st) == IF st.seekable THEN seek0(st) ELSE st
        hashed(ha, hb) ==
            slow_path(ha, hb,
                compare_canonical_streams(rewind(ha.stream), rewind(hb.stream),
                                          schema_id, mode, rel_tol, max_ulp))
    IN  hashed(merkle_stream(a, CHUNK_SIZE), merkle_stream(b, CHUNK_SIZE))

compare_canonical_fast(a, b, schema_id, mode, rel_tol, max_ulp) ==
    LET slow_path(ha, hb, r) ==
            [res |-> r.res, a |-> r.a, b |-> r.b,
             root_a |-> ha.root, root_b |-> hb.root, slow |-> TRUE]
        rewind(st) == IF st.seekable THEN seek0(st) ELSE st
        hashed(ha, hb) ==
            IF ha.root = hb.root
            THEN [res |-> [status       |-> "returned",
                           equal        |-> TRUE,
                           mode         |-> mode,
                           schema_id    |-> schema_id,
                           record_count |-> <<>>,
                           rel_err_max  |-> BigRatZero,
                           ulp_max      |-> <<>>,
                           differences  |-> 0],
                  a |-> ha.stream, b |-> hb.stream,
                  root_a |-> ha.root, root_b |-> hb.root, slow |-> FALSE]
            ELSE slow_path(ha, hb,
                     compare_canonical_streams(rewind(ha.stream), rewind(hb.stream),
                                               schema_id, mode, rel_tol, max_ulp))
    IN  hashed(merkle_stream(a, CHUNK_SIZE), merkle_stream(b, CHUNK_SIZE))

(***************************************************************************)
(* POST /qc/compare  (apps/api/app/api/v1/endpoints/qc.py)                 *)
(***************************************************************************)

\* _read_upload_as_seekable: io.BytesIO(stream.read()), the rest of the
\* upload in a seekable buffer
_read_upload_as_seekable(upload) ==
    Stream(SubSeq(upload.data, upload.pos + 1, Len(upload.data)), TRUE)

qc_compare(schema_id, mode, a, b, rel_tol, max_ulp) ==
    IF mode \notin {"bit_exact", "fp_tolerant"}
    THEN [res |-> [CompareNone EXCEPT !.status = "http_400"],
          a |-> a, b |-> b, root_a |-> <<>>, root_b |-> <<>>, slow |-> FALSE]
    ELSE LET buf_a == _read_upload_as_seekable(a)
             buf_b == _read_upload_as_seekable(b)
         IN  compare_canonical_fast(seek0(buf_a), seek0(buf_b),
                                    schema_id, mode, rel_tol, max_ulp)

(***************************************************************************)
(* Canonicalizer  (packages/canonicalization/canonx/canonicalize.py)       *)
(*                                                                         *)
(* A row is a dict [keys, val]: its keys in insertion order and the value  *)
(* of every key.  A value is a parsed JSON value as above or a list of     *)
(* them.  The canonical bytes are a symbol sequence as above; the token of *)
(* a member is the text json.dumps writes for its value.                   *)
(***************************************************************************)
Dict(keys, val) == [keys |-> keys, val |-> val]

PyList(items) == [kind |-> "list", items |-> items]

PosZero == Dbl(0, 0, <<>>)

\* repr of a float, for the floats of the model
float_repr(d) ==
    CASE d = Dbl(0, 0, <<>>)                            -> "0.0"
      [] d = Dbl(1, 0, <<>>)                            -> "-0.0"
      [] d = Dbl(0, 1023, <<>>)                         -> "1.0"
      [] d = Dbl(0, 1023, <<0, 0, 0, 2048>>)            -> "1.25"
      [] d = Dbl(0, 1023, <<4915, 6553, 3276, 1638>>)   -> "1.2"
      [] d = Dbl(0, 1023, <<1486, 4185, 3283, 1638>>)   -> "1.2000001"

\* repr of an int, for the ints of the model
int_repr(d) ==
    CASE d = Dbl(0, 0, <<>>)    -> "0"
      [] d = Dbl(0, 1023, <<>>) -> "1"
      [] d = Dbl(1, 1023, <<>>) -> "-1"
      [] d = Dbl(1, 1024, <<>>) -> "-2"

\* str(val)
py_str(v) ==
    CASE v.kind = "str"   -> v.s
      [] v.kind = "int"   -> int_repr(v.d)
      [] v.kind = "float" -> float_repr(v.d)

\* The text json.dumps writes for a float (allow_nan is left at its default):
\* the literals NaN, Infinity and -Infinity for the values that are not
\* finite, and repr for the others.
floatstr(d) ==
    IF isnan(d) THEN "NaN"
    ELSE IF d.exp = 2^11 - 1 THEN (IF d.sign = 1 THEN "-Infinity" ELSE "Infinity")
    ELSE float_repr(d)

\* json.dumps of a value with separators (",", ":")
RECURSIVE json_dumps_items(_, _)
json_dumps_value(v) ==
    CASE v.kind = "str"   -> "\"" \o v.s \o "\""
      [] v.kind = "int"   -> int_repr(v.d)
      [] v.kind = "float" -> floatstr(v.d)
      [] v.kind = "list"  -> "[" \o json_dumps_items(v.items, 1) \o "]"

json_dumps_items(items, i) ==
    IF i > Len(items) THEN ""
    ELSE IF i = Len(items) THEN json_dumps_value(items[i])
    ELSE json_dumps_value(items[i]) \o "," \o json_dumps_items(items, i + 1)

\* json.dumps(row, separators=(",", ":")): the members in the insertion
\* order of the dict
json_dumps(row) ==
    <<LB>> \o [i \in 1 .. Len(row.keys) |->
                  <<row.keys[i], json_dumps_value(row.val[row.keys[i]])>>]
           \o <<RB>>

\* A normalized float token or the exception of float(v).
_normalize_float_token(v) ==
    LET normalized(val) ==
            IF val.raised THEN [raised |-> TRUE, v |-> v]
            ELSE IF FloatEq(val.d, PosZero) THEN [raised |-> FALSE, v |-> PyFloat(PosZero)]
            ELSE [raised |-> FALSE, v |-> PyFloat(val.d)]
    IN  IF v.kind = "str" /\ v.s \in {"NaN", "Inf", "-Inf"}
        THEN [raised |-> FALSE, v |-> v]
        ELSE normalized(_coerce_json_number(v))

\* Applied to what _normalize_float_token returned: a special token or a
\* float.
_format_float_token(v) ==
    IF v.kind = "str" /\ v.s \in {"NaN", "Inf", "-Inf"} THEN v
    ELSE PyFloat(v.d)

\* "\n".join(out) + "\n"
RECURSIVE join_lines(_, _)
join_lines(rows, i) ==
    IF i > Len(rows) THEN <<>>
    ELSE IF i = Len(rows) THEN json_dumps(rows[i])
    ELSE json_dumps(rows[i]) \o <<NL>> \o join_lines(rows, i + 1)

_write_jsonl(rows) == join_lines(rows, 1) \o <<NL>>

\* The order of Python's < on the strings of the model (code points).
StrRank(t) ==
    CASE t = "1"   -> 1
      [] t = "NaN" -> 2
      [] t = "a"   -> 3
      [] t = "b"   -> 4

\* u < v for two parts of a sort key, both strings or both numbers
PartLess(u, v) ==
    IF u.kind = "str" /\ v.kind = "str" THEN StrRank(u.s) < StrRank(v.s)
    ELSE IF is_number(u) /\ is_number(v) THEN SignedSub(RealVal(u.d), RealVal(v.d)).neg
    ELSE FALSE

\* p < q for two sort keys (tuples), from part i on
RECURSIVE KeyLess(_, _, _)
KeyLess(p, q, i) ==
    IF i > Len(p) \/ i > Len(q) THEN Len(p) < Len(q)
    ELSE IF PartLess(p[i], q[i]) THEN TRUE
    ELSE IF PartLess(q[i], p[i]) THEN FALSE
    ELSE KeyLess(p, q, i + 1)

\* key_fn of _sort_rows: row.get(k), with -1 for a missing value
key_fn(row, keys) ==
    [i \in 1 .. Len(keys) |->
        IF keys[i] \in DOMAIN row.val THEN row.val[keys[i]]
        ELSE PyInt(Dbl(1, 1023, <<>>))]

\* sorted() is stable: a row goes behind every row whose key is not
\* greater than its own.
RECURSIVE sorted_insert(_, _, _)
sorted_insert(done, row, keys) ==
    IF done = <<>> THEN <<row>>
    ELSE IF KeyLess(key_fn(row, keys), key_fn(done[Len(done)], keys), 1)
         THEN sorted_insert(SubSeq(done, 1, Len(done) - 1), row, keys)
              \o <<done[Len(done)]>>
         ELSE done \o <<row>>

RECURSIVE sorted_from(_, _, _, _)
sorted_from(rows, i, done, keys) ==
    IF i > Len(rows) THEN done
    ELSE sorted_from(rows, i + 1, sorted_insert(done, rows[i], keys), keys)

_sort_rows(rows, keys) == sorted_from(rows, 1, <<>>, keys)

\* load_schema("vectors@1")["primary_key"].  The schema files are not part
\* of the sources at hand; the primary key of vectors@1 is its id field.
vectors_primary_key == <<"id">>

\* [... for v in vec], from item i on: the normalized items, or raised
RECURSIVE norm_vec(_, _)
norm_vec(vec, i) ==
    LET rest(n, tail) ==
            IF n.raised \/ tail.raised THEN [raised |-> TRUE, items |-> <<>>]
            ELSE [raised |-> FALSE,
                  items |-> <<_format_float_token(n.v)>> \o tail.items]
    IN  IF i > Len(vec) THEN [raised |-> FALSE, items |-> <<>>]
        ELSE rest(_normalize_float_token(vec[i]), norm_vec(vec, i + 1))

\* The for loop of canonicalize_vectors_jsonl from row i on; expected_len is
\* <<>> for None and <<n>> for n.
RECURSIVE vectors_rows(_, _, _, _)
vectors_rows(rows, i, expected_len, normalized) ==
    LET raised == [raised |-> TRUE, rows |-> <<>>]
        append(raw, nv) ==
            IF nv.raised THEN raised
            ELSE vectors_rows(rows, i + 1, <<Len(raw.val["vector"].items)>>,
                     normalized \o <<Dict(<<"id", "vector">>,
                                          [id |-> PyStr(py_str(raw.val["id"])),
                                           vector |-> PyList(nv.items)])>>)
        row(raw) ==
            IF "id" \notin DOMAIN raw.val \/ "vector" \notin DOMAIN raw.val THEN raised
            ELSE IF raw.val["vector"].kind # "list" THEN raised
            ELSE IF expected_len # <<>> /\ Len(raw.val["vector"].items) # expected_len[1]
            THEN raised
            ELSE append(raw, norm_vec(raw.val["vector"].items, 1))
    IN  IF i > Len(rows) THEN [raised |-> FALSE, rows |-> normalized]
        ELSE row(rows[i])

\* The canonical bytes, or raised for a ValueError.
canonicalize_vectors_jsonl(rows) ==
    LET written(n) ==
            IF n.raised THEN [raised |-> TRUE, bytes |-> <<>>]
            ELSE [raised |-> FALSE,
                  bytes |-> _write_jsonl(_sort_rows(n.rows, vectors_primary_key))]
    IN  written(vectors_rows(rows, 1, <<>>, <<>>))

\* load_schema("cado_relations@1"): the names of its fields and its primary
\* key.  The schema files are not part of the sources at hand; the schema
\* is taken to declare two required integer fields and the optional
\* large_prime, and all three make its primary key: the sentinel of
\* _sort_rows is there "for missing optional ints", and large_prime is the
\* only optional field of the canonicalizers that is an integer.
cado_relations_fields == <<"a", "b", "large_prime">>

cado_relations_primary_key == <<"a", "b", "large_prime">>

PyNone == [kind |-> "none", d |-> Dbl(0, 0, <<>>), s |-> ""]

\* The for loop over the fields of one raw row, from field i on, row being
\* the dict built so far: the finished row, or raised for a missing field.
RECURSIVE relation_row(_, _, _)
relation_row(raw, i, row) ==
    LET name == cado_relations_fields[i]
        int_of(val) == PyInt(val.d)
    IN  IF i > Len(cado_relations_fields) THEN [raised |-> FALSE, row |-> row]
        ELSE IF name \notin DOMAIN raw.val
        THEN IF name = "large_prime" THEN relation_row(raw, i + 1, row)
             ELSE [raised |-> TRUE, row |-> row]
        ELSE IF raw.val[name] = PyNone THEN relation_row(raw, i + 1, row)
        ELSE relation_row(raw, i + 1,
                 Dict(row.keys \o <<name>>, row.val @@ (name :> int_of(raw.val[name]))))

\* The for loop over the raw rows, from row i on.
RECURSIVE relation_rows(_, _, _)
relation_rows(rows, i, normalized) ==
    LET append(n) ==
            IF n.raised THEN [raised |-> TRUE, rows |-> <<>>]
            ELSE relation_rows(rows, i + 1, normalized \o <<n.row>>)
    IN  IF i > Len(rows) THEN [raised |-> FALSE, rows |-> normalized]
        ELSE append(relation_row(rows[i], 1, Dict(<<>>, <<>>)))

\* The canonical bytes, or raised for a ValueError.
canonicalize_cado_relations_jsonl(rows) ==
    LET written(n) ==
            IF n.raised THEN [raised |-> TRUE, bytes |-> <<>>]
            ELSE [raised |-> FALSE,
                  bytes |-> _write_jsonl(_sort_rows(n.rows, cado_relations_primary_key))]
    IN  written(relation_rows(rows, 1, <<>>))

(***************************************************************************)
(* Deterministic sampling engine  (apps/api/app/services/qc/sampling.py)   *)
(*                                                                         *)
(* HMAC-SHA256 is modelled as a collision-free keyed function: the digest  *)
(* of msg under key is the term <<"hmac", key, msg>>.  The number          *)
(* int.from_bytes makes of a digest cannot be told before the digest is    *)
(* computed: it is drawn from 0 .. DigestSpace - 1 when a seed is first    *)
(* used and stays what it is from then on.  digest_int below is the map    *)
(* seed |-> (counter |-> number) of the numbers drawn so far.              *)
(***************************************************************************)
MaxItems == 2

\* The number of values int.from_bytes(digest) can take (2^256 in the code).
DigestSpace == 2

\* The model follows the loop of choose_indices for the counters
\* 0 .. MaxCounter; a loop that needs more draws is reported as "running".
MaxCounter == MaxItems - 1

\* s.encode("utf-8")
encode(t) == <<"utf-8", t>>

_hmac_sha256(key, msg) == <<"hmac", key, msg>>

\* A generator that mixes the number of calls made so far into its output:
\* state kept between calls.  C10 tells it from hmac_drbg.
hmac_drbg_counting_calls(digest_int, seed, counter) ==
    (digest_int[seed][counter] + Len(s_log)) % DigestSpace

\* int.from_bytes(_hmac_sha256(seed, struct.pack(">Q", counter)), "big")
hmac_drbg(digest_int, seed, counter) == digest_int[seed][counter]

derive_job_seed(master_key, job_id, window, tier, secret_epoch) ==
    _hmac_sha256(master_key,
                 encode(job_id \o "|" \o window \o "|" \o tier \o "|" \o secret_epoch))

\* A package seed that does not take the package in.  C9 tells it from
\* derive_pkg_seed.
derive_pkg_seed_of_job_only(job_seed, package_id) == _hmac_sha256(job_seed, encode(""))

derive_pkg_seed(job_seed, package_id) == _hmac_sha256(job_seed, encode(package_id))

\* A loop that appends every index drawn, seen before or not.  C11 tells it
\* from choose_loop.
RECURSIVE choose_loop_with_replacement(_, _, _, _, _, _, _)
choose_loop_with_replacement(digest_int, seed, population_size, k, seen, out, counter) ==
    LET drawn(idx) ==
            choose_loop_with_replacement(digest_int, seed, population_size, k,
                                         seen \cup {idx}, out \o <<idx>>, counter + 1)
    IN  IF ~(Len(out) < k /\ Cardinality(seen) < population_size)
        THEN [done |-> TRUE, out |-> out]
        ELSE IF counter > MaxCounter
        THEN [done |-> FALSE, out |-> out]
        ELSE drawn(hmac_drbg(digest_int, seed, counter) % population_size)

\* The while loop of choose_indices from a given counter on.
RECURSIVE choose_loop(_, _, _, _, _, _, _)
choose_loop(digest_int, seed, population_size, k, seen, out, counter) ==
    LET drawn(idx) ==
            IF idx \notin seen
            THEN choose_loop(digest_int, seed, population_size, k,
                             seen \cup {idx}, out \o <<idx>>, counter + 1)
            ELSE choose_loop(digest_int, seed, population_size, k,
                             seen, out, counter + 1)
    IN  IF ~(Len(out) < k /\ Cardinality(seen) < population_size)
        THEN [done |-> TRUE, out |-> out]
        ELSE IF counter > MaxCounter
        THEN [done |-> FALSE, out |-> out]
        ELSE drawn(hmac_drbg(digest_int, seed, counter) % population_size)

\* A selection whose draws begin at counter 1.  C29 tells it from
\* choose_indices.
choose_indices_from_one(digest_int, seed, population_size, k) ==
    choose_loop(digest_int, seed, population_size, k, {}, <<>>, 1)

choose_indices(digest_int, seed, population_size, k) ==
    choose_loop(digest_int, seed, population_size, k, {}, <<>>, 0)

\* The model records the first MaxDraws draws of a loop followed step by
\* step; the counter of the code is the number of draws made.
MaxDraws == 3

\* The condition of the while loop of choose_indices.
choose_continues(c) == Len(c.out) < c.k /\ Cardinality(c.seen) < c.population_size

\* A round that appends the index drawn, seen before or not.
choose_round_keeping_repeats(c, r) ==
    [c EXCEPT !.seen  = @ \cup {r % c.population_size},
              !.out   = @ \o <<r % c.population_size>>,
              !.draws = IF Len(@) < MaxDraws THEN Append(@, r) ELSE @]

\* One round of the while loop, r being hmac_drbg(seed, counter).
choose_round(c, r) ==
    [c EXCEPT !.seen  = @ \cup {r % c.population_size},
              !.out   = IF r % c.population_size \notin c.seen
                        THEN @ \o <<r % c.population_size>> ELSE @,
              !.draws = IF Len(@) < MaxDraws THEN Append(@, r) ELSE @]

\* round(v) for v = num / den >= 0: to the nearest integer, a tie to the
\* even one.  The rates of the model are binary fractions, so the float
\* n_items * rate is the exact product.
py_round(num, den) ==
    LET fl == num \div den
        twice == 2 * (num % den)
    IN  IF twice < den THEN fl
        ELSE IF twice > den THEN fl + 1
        ELSE IF fl % 2 = 0 THEN fl ELSE fl + 1

compute_count(n_items, rate, floor) ==
    Max(floor, py_round(n_items * rate[1], rate[2]))

\* os.environ.get("QC_MASTER_KEY", "dev_master_key"); environ is <<>> when
\* the variable is unset and <<value>> when it is set
environ_get(environ, default) == IF environ = <<>> THEN default ELSE environ[1]

\* bytes.fromhex(job_seed_hex.removeprefix("0x"))
bytes_fromhex(t) ==
    CASE t = "0xab" -> <<"bytes", "ab">>
      [] t = "ab"   -> <<"bytes", "ab">>

\* A job seed that is always derived from the master key, an explicit seed
\* or not.  C12 tells it from plan_job_seed.
plan_job_seed_always_derived(environ, job_id, window, tier, secret_epoch, job_seed_hex) ==
    derive_job_seed(encode(environ_get(environ, "dev_master_key")),
                    job_id, window, tier, secret_epoch)

\* Lines 100-110 of plan_sampling: the job seed of the call.
plan_job_seed(environ, job_id, window, tier, secret_epoch, job_seed_hex) ==
    IF job_seed_hex # ""
    THEN bytes_fromhex(job_seed_hex)
    ELSE derive_job_seed(encode(environ_get(environ, "dev_master_key")),
                         job_id, window, tier, secret_epoch)

PlanNone ==
    [status |-> "raised", dup_selected |-> FALSE,
     canary_indices |-> <<>>, spot_indices |-> <<>>,
     canary_count |-> 0, spot_count |-> 0]

\* The SamplingPlan of a call (status "returned"), ValueError (status
\* "raised"), or status "running" where an index loop has not ended.
plan_sampling(digest_int, environ, job_id, window, tier, package_id, n_items, secret_epoch, job_seed_hex, policy) ==
    LET defaults == policy.defaults
        plan(pkg_seed, canary_count, spot_count, canary, spot) ==
            IF ~canary.done \/ ~spot.done
            THEN [PlanNone EXCEPT !.status = "running"]
            ELSE [status         |-> "returned",
                  dup_selected   |-> RatLess(<<hmac_drbg(digest_int, pkg_seed, 0),
                                               DigestSpace>>,
                                             defaults.dup_rate),
                  canary_indices |-> canary.out,
                  spot_indices   |-> spot.out,
                  canary_count   |-> canary_count,
                  spot_count     |-> spot_count]
        counted(pkg_seed, canary_count, spot_count) ==
            plan(pkg_seed, canary_count, spot_count,
                 choose_indices(digest_int, pkg_seed, n_items, canary_count),
                 choose_indices(digest_int, pkg_seed, n_items, spot_count))
        seeded(pkg_seed) ==
            counted(pkg_seed,
                    compute_count(n_items, defaults.canary_rate,
                                  defaults.min_canaries_per_pkg),
                    compute_count(n_items, defaults.spot_rate,
                                  defaults.min_spot_items_per_pkg))
    IN  IF n_items <= 0 THEN PlanNone
        ELSE seeded(derive_pkg_seed(
                        plan_job_seed(environ, job_id, window, tier,
                                      secret_epoch, job_seed_hex),
                        package_id))

(***************************************************************************)
(* Proof verifier  (packages/cado_proofkit/verifier_f2.py, hash_commit.py)  *)
(*                                                                         *)
(* A str is the sequence of its characters.                                *)
(***************************************************************************)

\* str.strip(): the text between the first and the last character that is
\* not whitespace
strip(t) ==
    LET inner(idx) ==
            IF idx = {} THEN <<>>
            ELSE SubSeq(t, CHOOSE i \in idx : \A j \in idx : i <= j,
                           CHOOSE i \in idx : \A j \in idx : i >= j)
    IN  inner({i \in DOMAIN t : t[i] \notin {" ", "\n"}})

_parse_bitstring(bitstr) ==
    LET bits(t) == [i \in DOMAIN t |-> IF t[i] = "1" THEN 1 ELSE 0]
    IN  bits(strip(bitstr))

\* A reduction that is 1 as soon as one position has a 1 in both the row
\* and the vector (OR in place of XOR).  C14 tells it from dot_f2.
RECURSIVE dot_f2_or(_, _, _, _)
dot_f2_or(r, v, i, acc) ==
    IF i > Min(Len(r), Len(v)) THEN acc
    ELSE dot_f2_or(r, v, i + 1, Max(acc, r[i] * v[i]))

\* for a, b in zip(r, v): acc ^= (a & b), from position i on.  On bits,
\* a & b is the product and x ^ y is the sum modulo 2.
RECURSIVE dot_f2(_, _, _, _)
dot_f2(r, v, i, acc) ==
    IF i > Min(Len(r), Len(v)) THEN acc
    ELSE dot_f2(r, v, i + 1, (acc + r[i] * v[i]) % 2)

\* The loop over matrix_rows from row i on: "ValueError", "False" or "True".
RECURSIVE verify_rows(_, _, _)
verify_rows(matrix_rows, v, i) ==
    LET row(r) ==
            IF Len(r) # Len(v) THEN "ValueError"
            ELSE IF dot_f2(r, v, 1, 0) # 0 THEN "False"
            ELSE verify_rows(matrix_rows, v, i + 1)
    IN  IF i > Len(matrix_rows) THEN "True"
        ELSE row(_parse_bitstring(matrix_rows[i]))

verify_f2_matrix_vector(matrix_rows, vector_bits) ==
    verify_rows(matrix_rows, _parse_bitstring(vector_bits), 1)

\* "\n".join(row.strip() for row in matrix_rows), from row i on
RECURSIVE join_stripped(_, _)
join_stripped(matrix_rows, i) ==
    IF i > Len(matrix_rows) THEN <<>>
    ELSE strip(matrix_rows[i])
         \o (IF i < Len(matrix_rows) THEN NL ELSE <<>>)
         \o join_stripped(matrix_rows, i + 1)

\* A commitment over the rows as they came, not stripped.  C15 tells it
\* from hash_matrix_rows.
hash_matrix_rows_unstripped(matrix_rows) == _hex(sha256(encode(<<"rows", matrix_rows>>)))

hash_matrix_rows(matrix_rows) == _hex(sha256(encode(join_stripped(matrix_rows, 1))))

(***************************************************************************)
(* Inputs of the hasher and of the comparator                              *)
(***************************************************************************)

\* Raw byte streams for the hasher: every sequence of at most MaxBytes
\* bytes over a two-letter alphabet.
MaxBytes == 4

MaxChunk == 2

ByteSet == {<<"x">>, <<"y">>}

ByteStreams == UNION {[1 .. n -> ByteSet] : n \in 0 .. MaxBytes}

\* Canonical JSON Lines for the comparator.  The first record of a stream
\* is one of LineSet: the same record {"id": "a", "x": ...} with x spelled
\* 1.2000000, 1.2000001, 1, 1.0 and "NaN", and 1.0 again with the keys
\* swapped and with a blank after the brace.  Further records are drawn
\* from TailLineSet.
MaxRecs == 2

Line(members) == <<LB>> \o members \o <<RB, NL>>

IdA == <<"id", "\"a\"">>

LineX(tok) == Line(<<IdA, <<"x", tok>>>>)

LineSet ==
    {LineX("1.2000000"), LineX("1.2000001"), LineX("1"), LineX("1.0"),
     LineX("\"NaN\""),
     Line(<<<<"x", "1.0">>, IdA>>),
     <<LB, WS, IdA, <<"x", "1.0">>, RB, NL>>}

TailLineSet ==
    {Line(<<<<"id", "\"b\"">>, <<"x", "1.25">>>>),
     Line(<<<<"id", "\"b\"">>, <<"x", "1.2000000">>>>)}

RECURSIVE StreamsOfLen(_)
StreamsOfLen(n) ==
    IF n = 0 THEN {<<>>}
    ELSE IF n = 1 THEN LineSet
    ELSE {st \o t : st \in StreamsOfLen(n - 1), t \in TailLineSet}

JsonlStreams == UNION {StreamsOfLen(n) : n \in 0 .. MaxRecs}

\* Streams of one or two records whose first record holds a number or an
\* ordinary string in its x field.
MixedStreams ==
    {first \o rest : first \in {LineX("1"), LineX("1.25"), LineX("\"a\""), LineX("\"b\"")},
                     rest \in {<<>>} \cup TailLineSet}

\* Streams of one record whose x field holds a zero of either sign, 1.0 and
\* the double next to it, 1.2 and values near it, or a special token.
NumericStreams ==
    {LineX(tok) : tok \in {"0.0", "-0.0", "1.0", "1.0000000000000002", "1.2000000",
                           "1.2000001", "1.25", "\"NaN\"", "\"Inf\""}}

\* rel_tol = 1e-4 and max_ulp = 2, the defaults of the comparator
CompareRequests ==
    [schema_id : {"table@1", "vectors@1"}, mode : {"bit_exact", "fp_tolerant"},
     rel_tol : {<<1, 10000>>}, max_ulp : {2}]

\* Raw vectors@1 rows for the canonicalizer: an id (a string or an int), a
\* vector of one item (-0.0, the int 1 or the token "NaN"), the keys in
\* either order; and a row without its vector.
MaxRows == 2

RawRows ==
    {Dict(ko, [id |-> id, vector |-> PyList(<<item>>)]) :
        ko \in {<<"id", "vector">>, <<"vector", "id">>},
        id \in {PyStr("a"), PyInt(Dbl(0, 1023, <<>>))},
        item \in {PyFloat(Dbl(1, 0, <<>>)), PyInt(Dbl(0, 1023, <<>>)), PyStr("NaN")}}
    \cup {Dict(<<"id">>, [id |-> PyStr("a")])}

RowInputs == UNION {[1 .. n -> RawRows] : n \in 0 .. MaxRows}

\* Raw vectors@1 rows whose vector holds one float, finite or not, or one
\* special token.
FloatRows ==
    {Dict(<<"id", "vector">>, [id |-> PyStr("a"), vector |-> PyList(<<item>>)]) :
        item \in {PyFloat(Dbl(1, 0, <<>>)), PyFloat(Dbl(0, 1023, <<0, 0, 0, 2048>>)),
                  PyFloat(Dbl(0, 2^11 - 1, <<>>)), PyFloat(Dbl(1, 2^11 - 1, <<>>)),
                  PyFloat(Dbl(0, 2^11 - 1, <<0, 0, 0, 2^12>>)),
                  PyStr("Inf"), PyStr("-Inf")}}

\* Raw cado_relations@1 rows: every field is absent, None, 0 or 1.
RelationRows ==
    LET absent == PyStr("absent")
        row(c) ==
            Dict(SelectSeq(cado_relations_fields, LAMBDA k : c[k] # absent),
                 [k \in {f \in DOMAIN c : c[f] # absent} |-> c[k]])
    IN  {row(c) : c \in [{"a", "b", "large_prime"} ->
                            {absent, PyNone, PyInt(Dbl(0, 0, <<>>)),
                             PyInt(Dbl(0, 1023, <<>>))}]}

\* Raw cado_relations@1 rows that agree on a: b is 0 or 1, and large_prime
\* is absent, None, or one of -2, -1, 0.
RelationKeyRows ==
    {Dict(<<"a", "b">>, [a |-> PyInt(Dbl(0, 0, <<>>)), b |-> b]) :
        b \in {PyInt(Dbl(0, 0, <<>>)), PyInt(Dbl(0, 1023, <<>>))}}
    \cup
    {Dict(<<"a", "b", "large_prime">>,
          [a |-> PyInt(Dbl(0, 0, <<>>)), b |-> b, large_prime |-> lp]) :
        b \in {PyInt(Dbl(0, 0, <<>>)), PyInt(Dbl(0, 1023, <<>>))},
        lp \in {PyNone, PyInt(Dbl(1, 1024, <<>>)), PyInt(Dbl(1, 1023, <<>>)),
                PyInt(Dbl(0, 0, <<>>))}}

Reverse(seq) == [i \in 1 .. Len(seq) |-> seq[Len(seq) + 1 - i]]

Perms(n) == {p \in [1 .. n -> 1 .. n] : \A i, j \in 1 .. n : p[i] = p[j] => i = j}

\* The inputs that hold the rows of rows in some order, each row with its
\* keys in the same or in the reverse order.
Rearrangements(rows) ==
    {[i \in 1 .. Len(rows) |->
         IF flip[i] THEN Dict(Reverse(rows[p[i]].keys), rows[p[i]].val)
         ELSE rows[p[i]]] :
        p \in Perms(Len(rows)), flip \in [1 .. Len(rows) -> BOOLEAN]}

\* Arguments of plan_sampling.  The policy is the dict handed to the call
\* or loaded from the policy file.
MaxCalls == 2

PackageIds == {"p1", "p2"}

MasterKeys == {<<>>, <<"k1">>}

SeedHexes == {"", "0xab", "ab"}

PolicyA ==
    [defaults |-> [dup_rate |-> <<1, 4>>,
                   canary_rate |-> <<1, 2>>, min_canaries_per_pkg |-> 1,
                   spot_rate |-> <<1, 4>>, min_spot_items_per_pkg |-> 0]]

PolicyB ==
    [defaults |-> [dup_rate |-> <<1, 2>>,
                   canary_rate |-> <<1, 1>>, min_canaries_per_pkg |-> 2,
                   spot_rate |-> <<1, 2>>, min_spot_items_per_pkg |-> 1]]

SamplingRequests ==
    [job_id : {"j1"}, window : {"w1"}, tier : {"t1"}, n_items : 0 .. MaxItems,
     secret_epoch : {"e1"}, job_seed_hex : SeedHexes, policy : {PolicyA, PolicyB}]

\* Requests without an explicit seed whose job_id and window may hold the
\* character the message of derive_job_seed is joined with.
JobRequests ==
    [job_id : {"a", "a|b"}, window : {"c", "b|c"}, tier : {"t1"},
     n_items : 1 .. MaxItems, secret_epoch : {"e1"}, job_seed_hex : {""},
     policy : {PolicyA, PolicyB}]

\* What int.from_bytes can make of the digests of one seed.
Draws == [0 .. MaxCounter -> 0 .. (DigestSpace - 1)]

(***************************************************************************)
(* Inputs of the ULP utility: zero, one, the largest finite value and      *)
(* infinity, each with either sign, and a quiet NaN                        *)
(***************************************************************************)
UlpInputs ==
    {Dbl(sg, 0, <<>>) : sg \in {0, 1}}
    \cup {Dbl(sg, 1023, <<>>) : sg \in {0, 1}}
    \cup {Dbl(sg, 2^11 - 2, BigSub(Two52, <<1>>)) : sg \in {0, 1}}
    \cup {Dbl(sg, 2^11 - 1, <<>>) : sg \in {0, 1}}
    \cup {Dbl(sg, 2^11 - 1, <<0, 0, 0, 2^12>>) : sg \in {0, 1}}

\* Neighbouring doubles: the zeros, the two smallest subnormals, the
\* largest double below 1.0, 1.0 and the double above it, each with either
\* sign.
UlpNeighbours ==
    {Dbl(sg, 0, man) : sg \in {0, 1}, man \in {<<>>, <<1>>, <<2>>}}
    \cup {Dbl(sg, 1022, BigSub(Two52, <<1>>)) : sg \in {0, 1}}
    \cup {Dbl(sg, 1023, man) : sg \in {0, 1}, man \in {<<>>, <<1>>}}

(***************************************************************************)
(* Inputs of the proof verifier                                            *)
(***************************************************************************)
MaxBits == 2

MaxMatrixRows == 2

\* The strings of at most MaxBits characters 0 and 1.
BitStrings == UNION {[1 .. k -> {"0", "1"}] : k \in 0 .. MaxBits}

\* Rows as they arrive: bitstrings, and rows with whitespace around them.
MatrixRowInputs == BitStrings \cup {<<" ">>, <<" ", "1">>, <<"1", " ">>, <<" ", "1", " ">>}

Matrices == UNION {[1 .. k -> MatrixRowInputs] : k \in 0 .. MaxMatrixRows}

\* Row lists for the commitment: at most MaxCommitRows rows, with and
\* without whitespace around them.
MaxCommitRows == 2

CommitRowInputs ==
    {<<>>, <<" ">>, <<"0">>, <<"1">>, <<" ", "1">>, <<"1", " ">>, <<"1", "0">>}

CommitMatrices == UNION {[1 .. k -> CommitRowInputs] : k \in 0 .. MaxCommitRows}

(***************************************************************************)
(* Specifications                                                          *)
(***************************************************************************)
TraceNone ==
    [entry |-> "none", root_a |-> <<>>, root_b |-> <<>>, slow |-> FALSE,
     pos_a |-> 0, pos_b |-> 0]

StreamIdle ==
    /\ stream_a = Stream(<<>>, TRUE)
    /\ stream_b = Stream(<<>>, TRUE)

MerkleIdle ==
    /\ m_chunk = CHUNK_SIZE
    /\ m_res = <<>>

CompareIdle ==
    /\ c_req = [schema_id |-> "table@1", mode |-> "bit_exact",
                rel_tol |-> <<1, 10000>>, max_ulp |-> 2]
    /\ c_res = CompareNone
    /\ c_trace = TraceNone

CanonIdle ==
    /\ cz_a = <<>>
    /\ cz_b = <<>>
    /\ cz_out = <<>>

SamplingIdle ==
    /\ s_key = <<>>
    /\ s_req = [job_id |-> "j1", window |-> "w1", tier |-> "t1", n_items |-> 1,
                secret_epoch |-> "e1", job_seed_hex |-> "", policy |-> PolicyA]
    /\ s_prf = <<>>
    /\ s_log = <<>>
    /\ ci = [population_size |-> 1, k |-> 0, seen |-> {}, out |-> <<>>,
             draws |-> <<>>, pc |-> "returned"]

ProofIdle ==
    /\ p_rows = <<>>
    /\ p_vec = <<>>
    /\ p_out = <<>>

UlpIdle ==
    /\ u_a = PosZero
    /\ u_b = PosZero
    /\ u_out = <<>>

\* ---- dispute decision ----
DisputeNext == DecisionCall \/ QcDisputeDecideCall

InitDispute ==
    /\ d_n \in NRange
    /\ d_eps0 \in EpsSet
    /\ d_alpha \in AlphaSet
    /\ d_via \in {"direct", "endpoint"}
    /\ d_log = <<>>
    /\ StreamIdle /\ MerkleIdle /\ CompareIdle /\ CanonIdle /\ SamplingIdle
    /\ ProofIdle /\ UlpIdle

SpecDispute == InitDispute /\ [][DisputeNext]_vars

\* ---- Merkle hasher ----
MerkleResult(r) ==
    [root |-> r.root, leaves |-> r.leaves, total |-> r.total,
     chunks |-> r.chunks, chunk_size |-> r.chunk_size]

\* merkle_stream(stream_a, m_chunk)
MerkleStreamA ==
    /\ "a" \notin DOMAIN m_res
    /\ LET done(r) == /\ m_res' = m_res @@ ("a" :> MerkleResult(r))
                      /\ stream_a' = r.stream
       IN  done(merkle_stream(stream_a, m_chunk))
    /\ UNCHANGED <<stream_b, m_chunk, disputeVars, compareVars, canonVars, samplingVars, proofVars, ulpVars>>

\* merkle_stream(stream_b, m_chunk)
MerkleStreamB ==
    /\ "b" \notin DOMAIN m_res
    /\ LET done(r) == /\ m_res' = m_res @@ ("b" :> MerkleResult(r))
                      /\ stream_b' = r.stream
       IN  done(merkle_stream(stream_b, m_chunk))
    /\ UNCHANGED <<stream_a, m_chunk, disputeVars, compareVars, canonVars, samplingVars, proofVars, ulpVars>>

MerkleNext == MerkleStreamA \/ MerkleStreamB

InitMerkle ==
    /\ stream_a \in {Stream(d, TRUE) : d \in ByteStreams}
    /\ stream_b \in {Stream(d, TRUE) : d \in ByteStreams}
    /\ m_chunk \in 1 .. MaxChunk
    /\ m_res = <<>>
    /\ DisputeIdle /\ CompareIdle /\ CanonIdle /\ SamplingIdle
    /\ ProofIdle /\ UlpIdle

SpecMerkle == InitMerkle /\ [][MerkleNext]_vars

\* The hasher on one content read from a raw stream (stream_a) and from a
\* buffer (stream_b).
InitMerkleRaw ==
    /\ stream_a \in {RawStream(d, n) : d \in ByteStreams, n \in 1 .. MaxChunk}
    /\ stream_b = Stream(stream_a.data, TRUE)
    /\ m_chunk \in 1 .. MaxChunk
    /\ m_res = <<>>
    /\ DisputeIdle /\ CompareIdle /\ CanonIdle /\ SamplingIdle
    /\ ProofIdle /\ UlpIdle

SpecMerkleRaw == InitMerkleRaw /\ [][MerkleNext]_vars

\* ---- comparator ----
\* What a call leaves behind: the result, and the two stream objects of the
\* caller where the call left them.
CompareReturn(entry, r, a, b) ==
    /\ c_res' = r.res
    /\ stream_a' = a
    /\ stream_b' = b
    /\ c_trace' = [entry |-> entry, root_a |-> r.root_a, root_b |-> r.root_b,
                   slow |-> r.slow, pos_a |-> r.a.pos, pos_b |-> r.b.pos]

\* compare_canonical_fast(stream_a, stream_b, ...)
CompareCanonicalFastCall ==
    /\ c_res.status = "none"
    /\ LET done(r) == CompareReturn("fast", r, r.a, r.b)
       IN  done(compare_canonical_fast(stream_a, stream_b, c_req.schema_id,
                                       c_req.mode, c_req.rel_tol, c_req.max_ulp))
    /\ UNCHANGED <<c_req, disputeVars, merkleVars, canonVars, samplingVars, proofVars, ulpVars>>

\* compare_canonical_streams(stream_a, stream_b, ...)
CompareCanonicalStreamsCall ==
    /\ c_res.status = "none"
    /\ LET done(r) ==
               CompareReturn("streams",
                             [res |-> r.res, a |-> r.a, b |-> r.b,
                              root_a |-> <<>>, root_b |-> <<>>, slow |-> TRUE],
                             r.a, r.b)
       IN  done(compare_canonical_streams(stream_a, stream_b, c_req.schema_id,
                                          c_req.mode, c_req.rel_tol, c_req.max_ulp))
    /\ UNCHANGED <<c_req, disputeVars, merkleVars, canonVars, samplingVars, proofVars, ulpVars>>

\* POST /qc/compare with stream_a and stream_b as the uploads a and b (the
\* spooled files of the uploads are seekable); unless it rejects the mode,
\* the handler reads both uploads to their end.
QcCompareCall ==
    /\ c_res.status = "none"
    /\ stream_a.seekable /\ stream_b.seekable
    /\ LET read_all(st) == [st EXCEPT !.pos = Len(st.data)]
           done(r) ==
               IF r.res.status = "http_400"
               THEN CompareReturn("endpoint", r, stream_a, stream_b)
               ELSE CompareReturn("endpoint", r, read_all(stream_a), read_all(stream_b))
       IN  done(qc_compare(c_req.schema_id, c_req.mode, stream_a, stream_b,
                           c_req.rel_tol, c_req.max_ulp))
    /\ UNCHANGED <<c_req, disputeVars, merkleVars, canonVars, samplingVars, proofVars, ulpVars>>

CompareNext ==
    CompareCanonicalFastCall \/ CompareCanonicalStreamsCall \/ QcCompareCall

InitCompare ==
    /\ stream_a \in {Stream(d, sk) : d \in JsonlStreams, sk \in BOOLEAN}
    /\ stream_b \in {Stream(d, sk) : d \in JsonlStreams, sk \in BOOLEAN}
    /\ c_req \in CompareRequests
    /\ c_res = CompareNone
    /\ c_trace = TraceNone
    /\ DisputeIdle /\ MerkleIdle /\ CanonIdle /\ SamplingIdle
    /\ ProofIdle /\ UlpIdle

SpecCompare == InitCompare /\ [][CompareNext]_vars

\* The comparator on streams whose x field holds numbers on one side and
\* ordinary strings on the other, called with valid and invalid modes.
InitCompareMixed ==
    /\ stream_a \in {Stream(d, TRUE) : d \in MixedStreams}
    /\ stream_b \in {Stream(d, TRUE) : d \in MixedStreams}
    /\ c_req \in [schema_id : {"table@1"}, mode : {"bit_exact", "fp_tolerant", "exact"},
                  rel_tol : {<<1, 10000>>}, max_ulp : {2}]
    /\ c_res = CompareNone
    /\ c_trace = TraceNone
    /\ DisputeIdle /\ MerkleIdle /\ CanonIdle /\ SamplingIdle
    /\ ProofIdle /\ UlpIdle

SpecCompareMixed == InitCompareMixed /\ [][CompareNext]_vars

\* The fp_tolerant comparator on one record a side, with the default bounds
\* and with either bound set to 0.
InitCompareNumeric ==
    /\ stream_a \in {Stream(d, TRUE) : d \in NumericStreams}
    /\ stream_b \in {Stream(d, TRUE) : d \in NumericStreams}
    /\ c_req \in [schema_id : {"table@1"}, mode : {"fp_tolerant"},
                  rel_tol : {<<1, 10000>>, <<0, 1>>}, max_ulp : {2, 0}]
    /\ c_res = CompareNone
    /\ c_trace = TraceNone
    /\ DisputeIdle /\ MerkleIdle /\ CanonIdle /\ SamplingIdle
    /\ ProofIdle /\ UlpIdle

SpecCompareNumeric == InitCompareNumeric /\ [][CompareNext]_vars

\* ---- canonicalizer ----
\* canonicalize_vectors_jsonl(cz_a)
CanonicalizeA ==
    /\ "a" \notin DOMAIN cz_out
    /\ cz_out' = cz_out @@ ("a" :> canonicalize_vectors_jsonl(cz_a))
    /\ UNCHANGED <<cz_a, cz_b, disputeVars, streamVars, merkleVars, compareVars,
                   samplingVars, proofVars, ulpVars>>

\* canonicalize_vectors_jsonl(cz_b)
CanonicalizeB ==
    /\ "b" \notin DOMAIN cz_out
    /\ cz_out' = cz_out @@ ("b" :> canonicalize_vectors_jsonl(cz_b))
    /\ UNCHANGED <<cz_a, cz_b, disputeVars, streamVars, merkleVars, compareVars,
                   samplingVars, proofVars, ulpVars>>

CanonNext == CanonicalizeA \/ CanonicalizeB

InitCanon ==
    /\ cz_a \in RowInputs
    /\ cz_b \in Rearrangements(cz_a)
    /\ cz_out = <<>>
    /\ DisputeIdle /\ StreamIdle /\ MerkleIdle /\ CompareIdle /\ SamplingIdle
    /\ ProofIdle /\ UlpIdle

SpecCanon == InitCanon /\ [][CanonNext]_vars

\* The canonicalizer on vectors of floats that need not be finite.
InitCanonFloats ==
    /\ cz_a \in UNION {[1 .. n -> FloatRows] : n \in 0 .. MaxRows}
    /\ cz_b \in [1 .. 1 -> FloatRows]
    /\ cz_out = <<>>
    /\ DisputeIdle /\ StreamIdle /\ MerkleIdle /\ CompareIdle /\ SamplingIdle
    /\ ProofIdle /\ UlpIdle

SpecCanonFloats == InitCanonFloats /\ [][CanonNext]_vars

\* canonicalize_cado_relations_jsonl(cz_a)
CanonicalizeCadoRelationsCall ==
    /\ "a" \notin DOMAIN cz_out
    /\ cz_out' = cz_out @@ ("a" :> canonicalize_cado_relations_jsonl(cz_a))
    /\ UNCHANGED <<cz_a, cz_b, disputeVars, streamVars, merkleVars, compareVars,
                   samplingVars, proofVars, ulpVars>>

InitRelations ==
    /\ cz_a \in UNION {[1 .. n -> RelationRows] : n \in 0 .. MaxRows}
    /\ cz_b = <<>>
    /\ cz_out = <<>>
    /\ DisputeIdle /\ StreamIdle /\ MerkleIdle /\ CompareIdle /\ SamplingIdle
    /\ ProofIdle /\ UlpIdle

SpecRelations == InitRelations /\ [][CanonicalizeCadoRelationsCall]_vars

InitRelationKeys ==
    /\ cz_a \in UNION {[1 .. n -> RelationKeyRows] : n \in 0 .. MaxRows}
    /\ cz_b = <<>>
    /\ cz_out = <<>>
    /\ DisputeIdle /\ StreamIdle /\ MerkleIdle /\ CompareIdle /\ SamplingIdle
    /\ ProofIdle /\ UlpIdle

SpecRelationKeys == InitRelationKeys /\ [][CanonicalizeCadoRelationsCall]_vars

\* ---- sampling engine ----
\* The package seed a call with the shared arguments derives for package_id.
PkgSeedOf(package_id) ==
    derive_pkg_seed(plan_job_seed(s_key, s_req.job_id, s_req.window, s_req.tier,
                                  s_req.secret_epoch, s_req.job_seed_hex),
                    package_id)

\* plan_sampling(job_id=..., package_id=package_id, ...).  The digests of a
\* package seed used for the first time are drawn now.
PlanSamplingCall ==
    /\ Len(s_log) < MaxCalls
    /\ \E package_id \in PackageIds :
          \E draws \in (IF s_req.n_items <= 0 THEN {<<>>}
                        ELSE IF PkgSeedOf(package_id) \in DOMAIN s_prf
                        THEN {s_prf[PkgSeedOf(package_id)]}
                        ELSE Draws) :
             /\ s_prf' = IF s_req.n_items <= 0 \/ PkgSeedOf(package_id) \in DOMAIN s_prf
                         THEN s_prf
                         ELSE s_prf @@ (PkgSeedOf(package_id) :> draws)
             /\ s_log' = Append(s_log,
                    [package_id |-> package_id,
                     pkg_seed   |-> PkgSeedOf(package_id),
                     plan       |-> plan_sampling(s_prf', s_key, s_req.job_id,
                                        s_req.window, s_req.tier, package_id,
                                        s_req.n_items, s_req.secret_epoch,
                                        s_req.job_seed_hex, s_req.policy)])
    /\ UNCHANGED <<s_key, s_req, ci, disputeVars, streamVars, merkleVars, compareVars,
                   canonVars, proofVars, ulpVars>>

SamplingNext == PlanSamplingCall

InitSampling ==
    /\ s_key \in MasterKeys
    /\ s_req \in SamplingRequests
    /\ s_prf = <<>>
    /\ s_log = <<>>
    /\ ci = [population_size |-> 1, k |-> 0, seen |-> {}, out |-> <<>>,
             draws |-> <<>>, pc |-> "returned"]
    /\ DisputeIdle /\ StreamIdle /\ MerkleIdle /\ CompareIdle /\ CanonIdle
    /\ ProofIdle /\ UlpIdle

SpecSampling == InitSampling /\ [][SamplingNext]_vars

InitSamplingJobs ==
    /\ s_key \in MasterKeys
    /\ s_req \in JobRequests
    /\ s_prf = <<>>
    /\ s_log = <<>>
    /\ ci = [population_size |-> 1, k |-> 0, seen |-> {}, out |-> <<>>,
             draws |-> <<>>, pc |-> "returned"]
    /\ DisputeIdle /\ StreamIdle /\ MerkleIdle /\ CompareIdle /\ CanonIdle
    /\ ProofIdle /\ UlpIdle

SpecSamplingJobs == InitSamplingJobs /\ [][SamplingNext]_vars

\* ---- choose_indices, step by step ----
\* The values hmac_drbg gives in a loop followed step by step: every index
\* of the largest population is the residue of two of them.
ChooseDraws == 0 .. (2 * MaxItems - 1)

\* One round of the loop with the DRBG output r.
ChooseRound(r) ==
    /\ ci.pc = "loop"
    /\ choose_continues(ci)
    /\ ci' = choose_round(ci, r)
    /\ UNCHANGED <<s_key, s_req, s_prf, s_log, disputeVars, streamVars, merkleVars,
                   compareVars, canonVars, proofVars, ulpVars>>

\* The loop condition fails: return out.
ChooseReturn ==
    /\ ci.pc = "loop"
    /\ ~choose_continues(ci)
    /\ ci' = [ci EXCEPT !.pc = "returned"]
    /\ UNCHANGED <<s_key, s_req, s_prf, s_log, disputeVars, streamVars, merkleVars,
                   compareVars, canonVars, proofVars, ulpVars>>

ChooseNext == (\E r \in ChooseDraws : ChooseRound(r)) \/ ChooseReturn

InitChoose ==
    /\ ci \in [population_size : 1 .. MaxItems, k : 0 .. (MaxItems + 1), seen : {{}},
                out : {<<>>}, draws : {<<>>}, pc : {"loop"}]
    /\ s_key = <<>>
    /\ s_req = [job_id |-> "j1", window |-> "w1", tier |-> "t1", n_items |-> 1,
                secret_epoch |-> "e1", job_seed_hex |-> "", policy |-> PolicyA]
    /\ s_prf = <<>>
    /\ s_log = <<>>
    /\ DisputeIdle /\ StreamIdle /\ MerkleIdle /\ CompareIdle /\ CanonIdle
    /\ ProofIdle /\ UlpIdle

\* HMAC-SHA256 behaves as a random function of the counter: while the loop
\* runs, every value the DRBG can give is given at some counter.  The
\* interpreter goes on with a loop that can go on.
SpecChoose ==
    /\ InitChoose
    /\ [][ChooseNext]_vars
    /\ \A r \in ChooseDraws : WF_vars(ChooseRound(r))
    /\ WF_vars(ChooseReturn)

\* ---- ULP utility ----
UlpDistanceCall ==
    /\ u_out = <<>>
    /\ u_out' = <<ulp_distance(u_a, u_b)>>
    /\ UNCHANGED <<u_a, u_b, disputeVars, streamVars, merkleVars, compareVars,
                   canonVars, samplingVars, proofVars>>

InitUlp ==
    /\ u_a \in UlpInputs
    /\ u_b \in UlpInputs
    /\ u_out = <<>>
    /\ DisputeIdle /\ StreamIdle /\ MerkleIdle /\ CompareIdle /\ CanonIdle
    /\ SamplingIdle /\ ProofIdle

SpecUlp == InitUlp /\ [][UlpDistanceCall]_vars

\* The ULP utility on neighbouring doubles.
InitUlpNear ==
    /\ u_a \in UlpNeighbours
    /\ u_b \in UlpNeighbours
    /\ u_out = <<>>
    /\ DisputeIdle /\ StreamIdle /\ MerkleIdle /\ CompareIdle /\ CanonIdle
    /\ SamplingIdle /\ ProofIdle

SpecUlpNear == InitUlpNear /\ [][UlpDistanceCall]_vars

\* ---- proof verifier ----
VerifyF2MatrixVectorCall ==
    /\ "verify" \notin DOMAIN p_out
    /\ p_out' = p_out @@ ("verify" :> verify_f2_matrix_vector(p_rows, p_vec))
    /\ UNCHANGED <<p_rows, p_vec, disputeVars, streamVars, merkleVars, compareVars,
                   canonVars, samplingVars, ulpVars>>

HashMatrixRowsCall ==
    /\ "hash" \notin DOMAIN p_out
    /\ p_out' = p_out @@ ("hash" :> hash_matrix_rows(p_rows))
    /\ UNCHANGED <<p_rows, p_vec, disputeVars, streamVars, merkleVars, compareVars,
                   canonVars, samplingVars, ulpVars>>

InitProof ==
    /\ p_rows \in Matrices
    /\ p_vec \in BitStrings \cup {<<" ", "1">>}
    /\ p_out = <<>>
    /\ DisputeIdle /\ StreamIdle /\ MerkleIdle /\ CompareIdle /\ CanonIdle
    /\ SamplingIdle /\ UlpIdle

SpecProof == InitProof /\ [][VerifyF2MatrixVectorCall]_vars

InitCommit ==
    /\ p_rows \in CommitMatrices
    /\ p_vec = <<>>
    /\ p_out = <<>>
    /\ DisputeIdle /\ StreamIdle /\ MerkleIdle /\ CompareIdle /\ CanonIdle
    /\ SamplingIdle /\ UlpIdle

SpecCommit == InitCommit /\ [][HashMatrixRowsCall]_vars

(***************************************************************************)
(* Claims: dispute decision                                                *)
(***************************************************************************)

\* C1 (as claimed): dispute monotonicity.  For n_checked > 0 and
\* 0 <= x1 < x2 <= n_checked, if decision(x1, ...) is "reject_slash" then
\* decision(x2, ...) is "reject_slash" too.
C1_DisputeMonotone ==
    \A x1 \in DOMAIN d_log : \A x2 \in DOMAIN d_log :
        (/\ d_n > 0
         /\ 0 <= x1 /\ x1 < x2 /\ x2 <= d_n
         /\ d_log[x1] = "reject_slash")
        => d_log[x2] = "reject_slash"

\* C7 (as claimed): the dispute decision fails with an error, and returns
\* neither "accept" nor "reject_slash", whenever n <= 0, x < 0 or x > n, for
\* a direct call and for a call through /qc/dispute/decide.
C7_InvalidArgumentsRejected ==
    \A x \in DOMAIN d_log :
        (d_n <= 0 \/ x < 0 \/ x > d_n) => d_log[x] = "error"

\* The sum over i = 0 .. x of C(n, i) * eps0^i * (1 - eps0)^(n - i), as a
\* rational over the denominator den(eps0)^n.
RECURSIVE ExactCdf(_, _, _)
ExactCdf(x, n, eps0) ==
    IF x < 0 THEN <<0, Pow(eps0[2], n)>>
    ELSE <<ExactCdf(x - 1, n, eps0)[1]
             + comb(n, x) * Pow(eps0[1], x) * Pow(eps0[2] - eps0[1], n - x),
           Pow(eps0[2], n)>>

\* C21: for n > 0 and 0 <= x <= n, decision(x, n, eps0, alpha) is "accept"
\* if and only if the binomial CDF sum up to x is at least alpha, and
\* "reject_slash" otherwise; at x = n the shortcut agrees with the sum.
C21_AcceptIffCdfAtLeastAlpha ==
    \A x \in DOMAIN d_log :
        (d_via = "direct" /\ d_n > 0 /\ 0 <= x /\ x <= d_n)
        => /\ d_log[x] \in {"accept", "reject_slash"}
           /\ d_log[x] = "accept" <=> RatGeq(ExactCdf(x, d_n, d_eps0), d_alpha)
           /\ x = d_n => ExactCdf(x, d_n, d_eps0) = <<Pow(d_eps0[2], d_n), Pow(d_eps0[2], d_n)>>

\* C21 witness: direct calls for one n returned both answers, one of them
\* with the CDF sum exactly at alpha.
C21_Witness ==
    /\ d_via = "direct" /\ d_n > 0
    /\ \E x, y \in DOMAIN d_log :
          /\ 0 <= x /\ x < y /\ y < d_n
          /\ d_log[x] = "reject_slash"
          /\ d_log[y] = "accept"
          /\ ExactCdf(y, d_n, d_eps0)[1] * d_alpha[2] = d_alpha[1] * ExactCdf(y, d_n, d_eps0)[2]

(***************************************************************************)
(* Claims: Merkle hasher                                                   *)
(***************************************************************************)

\* C5 (as claimed): with SHA-256 collision-free and a fixed chunk_size, two
\* streams whose ordered chunk sequences differ (also in their number of
\* chunks) have different Merkle roots.
C5_RootBindsContent ==
    (/\ "a" \in DOMAIN m_res
     /\ "b" \in DOMAIN m_res
     /\ ChunksOf(stream_a.data, m_chunk) # ChunksOf(stream_b.data, m_chunk))
    => m_res["a"].root # m_res["b"].root

\* C22 (as claimed): merkle_stream cuts a stream of N bytes into chunks of
\* chunk_size bytes: total_bytes = N, chunk_count = len(leaf_hashes) =
\* ceil(N / chunk_size), leaf i is the hash of the i-th chunk of the content,
\* and the empty stream has no leaf and the root SHA-256(""); the result
\* depends on the content and chunk_size only, not on how many bytes a read
\* call returns.
C22_FixedSizeChunks ==
    LET chunked(st, res) ==
            /\ res.total = Len(st.data)
            /\ res.chunks = Len(res.leaves)
            /\ res.chunks = (Len(st.data) + m_chunk - 1) \div m_chunk
            /\ res.leaves = [i \in 1 .. Len(ChunksOf(st.data, m_chunk)) |->
                                _hex(sha256(ChunksOf(st.data, m_chunk)[i]))]
            /\ st.data = <<>> => res.root = _hex(sha256(<<>>))
    IN  /\ "a" \in DOMAIN m_res => chunked(stream_a, m_res["a"])
        /\ "b" \in DOMAIN m_res => chunked(stream_b, m_res["b"])
        /\ ("a" \in DOMAIN m_res /\ "b" \in DOMAIN m_res /\ stream_a.data = stream_b.data)
           => m_res["a"] = m_res["b"]

\* The hashes of the adjacent pairs of a level, an odd trailing node paired
\* with itself.
PairUp(level) ==
    [i \in 1 .. ((Len(level) + 1) \div 2) |->
        sha256(<<level[2 * i - 1], level[IF 2 * i <= Len(level) THEN 2 * i ELSE 2 * i - 1]>>)]

\* The levels the while loop of merkle_from_chunks goes through, the leaves
\* first.
RECURSIVE Rounds(_)
Rounds(level) ==
    <<level>> \o (IF Len(level) > 1 THEN Rounds(merkle_pairs(level, 1)) ELSE <<>>)

\* C25: for a non-empty leaf list the root is what remains when the level is
\* replaced again and again by the hashes of its adjacent pairs, an odd
\* trailing node paired with itself; every round is shorter than the one
\* before; the leaf list handed back is the list of the chunk hashes,
\* unchanged; the root of the empty list is the hash of the empty string.
C25_TreeConstruction ==
    LET built(leaves, rounds, res) ==
            /\ \A k \in 1 .. (Len(rounds) - 1) :
                  /\ rounds[k + 1] = PairUp(rounds[k])
                  /\ Len(rounds[k + 1]) < Len(rounds[k])
            /\ rounds[Len(rounds)] = <<res.root[2]>>
        tree(st, res, leaves) ==
            /\ res.leaves = [i \in 1 .. Len(leaves) |-> _hex(leaves[i])]
            /\ leaves = <<>> => res.root = _hex(sha256(<<>>))
            /\ leaves # <<>> => built(leaves, Rounds(leaves), res)
        hashes(chunks) == [i \in 1 .. Len(chunks) |-> sha256(chunks[i])]
    IN  /\ "a" \in DOMAIN m_res
           => tree(stream_a, m_res["a"], hashes(ChunksOf(stream_a.data, m_chunk)))
        /\ "b" \in DOMAIN m_res
           => tree(stream_b, m_res["b"], hashes(ChunksOf(stream_b.data, m_chunk)))

\* C25 witness: a root was built over three leaves, the third paired with
\* itself.
C25_Witness == "a" \in DOMAIN m_res /\ m_res["a"].chunks = 3

(***************************************************************************)
(* Claims: comparator                                                      *)
(***************************************************************************)
CompareDone == c_res.status # "none"

\* The root merkle_stream computes for a whole content.
RECURSIVE LeafHashes(_)
LeafHashes(chunks) ==
    IF chunks = <<>> THEN <<>>
    ELSE <<sha256(Head(chunks))>> \o LeafHashes(Tail(chunks))

FullRoot(data) == _hex(merkle_from_chunks(LeafHashes(ChunksOf(data, CHUNK_SIZE))))

\* C2 (as claimed): for two single-record streams that both hold "NaN" in
\* the same field, an fp_tolerant compare_canonical_streams returns
\* equal = true under vectors@1, which permits special tokens, and
\* equal = false under table@1, which forbids them.
C2_SchemaNanPolicy ==
    (/\ CompareDone
     /\ c_trace.entry = "streams"
     /\ c_req.mode = "fp_tolerant"
     /\ stream_a.data = LineX("\"NaN\"")
     /\ stream_b.data = LineX("\"NaN\""))
    => /\ c_res.status = "returned"
       /\ c_res.equal = (c_req.schema_id = "vectors@1")

\* C3 (as claimed): in bit_exact mode compare_canonical_fast, given two
\* seekable streams whose lines parse as JSON objects, returns equal = true
\* if and only if the two streams are byte-identical, and whenever the two
\* Merkle roots differ the result has equal = false and differences >= 1.
C3_BitExactIsByteEquality ==
    (/\ CompareDone
     /\ c_trace.entry = "fast"
     /\ stream_a.seekable /\ stream_b.seekable
     /\ c_req.mode = "bit_exact")
    => /\ c_res.status = "returned"
       /\ c_res.equal = (stream_a.data = stream_b.data)
       /\ (c_trace.root_a # c_trace.root_b
           => ~c_res.equal /\ c_res.differences >= 1)

\* C4: compare_canonical_fast first hashes both streams completely; if the
\* two Merkle roots are equal it returns equal = true with differences = 0,
\* rel_err_max = 0 and ulp_max = 0 and does not run the line-by-line pass.
C4_FastPath ==
    (CompareDone /\ c_trace.entry = "fast")
    => /\ c_trace.root_a = FullRoot(stream_a.data)
       /\ c_trace.root_b = FullRoot(stream_b.data)
       /\ (c_trace.root_a = c_trace.root_b
           => /\ c_res.status = "returned"
              /\ c_res.equal
              /\ c_res.differences = 0
              /\ c_res.rel_err_max[1] = <<>>
              /\ c_res.ulp_max = <<>>
              /\ ~c_trace.slow
              /\ c_trace.pos_a = Len(stream_a.data)
              /\ c_trace.pos_b = Len(stream_b.data))

\* C4 witness: a fast-path call on two streams with equal roots returned.
C4_Witness ==
    /\ CompareDone
    /\ c_trace.entry = "fast"
    /\ c_trace.root_a = c_trace.root_b
    /\ stream_a.data # <<>>
    /\ c_res.equal

\* C8 (as claimed): two single-record streams that differ only by the
\* jitter 1.2000000 versus 1.2000001 compare equal in fp_tolerant mode
\* with rel_tol = 1e-4 and max_ulp = 2.
C8_SmallJitterEqual ==
    (/\ CompareDone
     /\ c_trace.entry = "streams"
     /\ c_req.mode = "fp_tolerant"
     /\ c_req.rel_tol = <<1, 10000>>
     /\ c_req.max_ulp = 2
     /\ stream_a.data = LineX("1.2000000")
     /\ stream_b.data = LineX("1.2000001"))
    => c_res.status = "returned" /\ c_res.equal

\* C17 (as claimed): a compare call whose mode is neither bit_exact nor
\* fp_tolerant fails with an error: it hashes nothing, reads no record and
\* returns no verdict, through compare_canonical_fast,
\* compare_canonical_streams and the /qc/compare endpoint alike.
C17_InvalidModeRejected ==
    (CompareDone /\ c_req.mode \notin {"bit_exact", "fp_tolerant"})
    => /\ c_res.status # "returned"
       /\ c_trace.root_a = <<>> /\ c_trace.root_b = <<>>
       /\ c_trace.pos_a = 0 /\ c_trace.pos_b = 0

\* The value of the x field in the first record of a stream.
FirstX(st) == parse_line(SubSeq(st.data, 1, line_end(st.data, 1))).val["x"]

\* One value is a number and the other an ordinary string.
NumberAgainstString(va, vb) ==
    \/ is_number(va) /\ vb.kind = "str" /\ ~_is_special(vb)
    \/ is_number(vb) /\ va.kind = "str" /\ ~_is_special(va)

\* C18 (as claimed): in fp_tolerant mode a field that holds a number on one
\* side and an ordinary string on the other counts as one difference; the
\* comparison goes on to the end of the streams and returns equal = false
\* instead of raising.
C18_MismatchCountedNotRaised ==
    (/\ CompareDone
     /\ c_trace.entry = "streams"
     /\ c_req.mode = "fp_tolerant"
     /\ NumberAgainstString(FirstX(stream_a), FirstX(stream_b)))
    => /\ c_res.status = "returned"
       /\ ~c_res.equal
       /\ c_res.differences >= 1
       /\ c_trace.pos_a = Len(stream_a.data)

\* Both x values within the bounds of the request: the relative error
\* |a - b| / max(1e-12, |a|, |b|) at most rel_tol and the ULP distance at
\* most max_ulp.
WithinBothBounds(a, b) ==
    /\ BigRatLeq(rel_err(a, b), <<BigFromInt(c_req.rel_tol[1]), BigFromInt(c_req.rel_tol[2])>>)
    /\ BigLeq(ulp_distance(a, b), BigFromInt(c_req.max_ulp))

SameRecords(rows_a, rows_b) ==
    /\ Len(rows_a) = Len(rows_b)
    /\ \E p \in Perms(Len(rows_a)) :
          \A i \in 1 .. Len(rows_a) : rows_b[i].val = rows_a[p[i]].val

\* C6 (as claimed): two accepted inputs that hold the same records and
\* differ only in row order or in the key order within a record canonicalize
\* to byte-identical output, also when records share the primary-key value
\* and differ in other fields.
C6_CanonicalizationDeterministic ==
    (/\ "a" \in DOMAIN cz_out
     /\ "b" \in DOMAIN cz_out
     /\ ~cz_out["a"].raised
     /\ ~cz_out["b"].raised
     /\ SameRecords(cz_a, cz_b))
    => cz_out["a"].bytes = cz_out["b"].bytes

\* The text of a vector of one item that is a finite float other than -0.0
\* or one of the strings "NaN", "Inf", "-Inf".
CanonicalVectorTokens ==
    {"[" \o item \o "]" :
        item \in {float_repr(Dbl(0, 0, <<>>)), float_repr(Dbl(0, 1023, <<>>)),
                  float_repr(Dbl(0, 1023, <<0, 0, 0, 2048>>)),
                  "\"NaN\"", "\"Inf\"", "\"-Inf\""}}

\* C19 (as claimed): in the output of an accepted vectors@1 input every
\* vector element is written as a finite number other than negative zero or
\* as one of the strings "NaN", "Inf", "-Inf"; a value that is not finite is
\* never written as a numeric literal.
C19_FloatsFiniteOrSpecialToken ==
    \A c \in DOMAIN cz_out :
        ~cz_out[c].raised =>
            \A i \in DOMAIN cz_out[c].bytes :
                (Len(cz_out[c].bytes[i]) = 2 /\ cz_out[c].bytes[i][1] = "vector")
                => cz_out[c].bytes[i][2] \in CanonicalVectorTokens

\* C20 (as claimed): every record canonicalize_cado_relations_jsonl emits
\* holds every required field of the schema (all fields but large_prime),
\* and an input with a row in which a required field is absent makes the
\* call fail with no output.
C20_RequiredFieldsEmitted ==
    LET required == {cado_relations_fields[i] : i \in DOMAIN cado_relations_fields}
                    \ {"large_prime"}
        members(bytes, f) ==
            Cardinality({i \in DOMAIN bytes : IsMember(bytes[i]) /\ bytes[i][1] = f})
        records(bytes) == Cardinality({i \in DOMAIN bytes : bytes[i] = LB})
        out == cz_out["a"]
    IN  "a" \in DOMAIN cz_out =>
            /\ (\E i \in DOMAIN cz_a : \E f \in required : f \notin DOMAIN cz_a[i].val)
               => (out.raised /\ out.bytes = <<>>)
            /\ ~out.raised =>
                  \A f \in required : members(out.bytes, f) = records(out.bytes)

(***************************************************************************)
(* Claims: sampling engine                                                 *)
(***************************************************************************)
Calls == 1 .. Len(s_log)

Selection(i) == <<s_log[i].plan.canary_indices, s_log[i].plan.spot_indices>>

\* Two returned calls that differ only in package_id.
OtherPackage(i, j) ==
    /\ s_log[i].package_id # s_log[j].package_id
    /\ s_log[i].plan.status = "returned"
    /\ s_log[j].plan.status = "returned"

\* The index drawn first for the package seed of call i.
FirstIndex(i) == s_prf[s_log[i].pkg_seed][0] % s_req.n_items

\* C9 (as claimed): two calls to plan_sampling that differ only in
\* package_id return different canary/spot index selections, for every
\* n_items > 0.
C9_PackageChangesSelection ==
    \A i \in Calls : \A j \in Calls :
        OtherPackage(i, j) => Selection(i) # Selection(j)

\* C9 (amended): two calls that differ only in package_id use different
\* package seeds and the same counts; their canary selections differ when
\* the count is at least 1 and the first indices drawn for the two seeds
\* differ; with n_items = 1 the two selections are the same.
C9_PackageChangesSeed ==
    \A i \in Calls : \A j \in Calls :
        OtherPackage(i, j) =>
            /\ s_log[i].pkg_seed # s_log[j].pkg_seed
            /\ s_log[i].plan.canary_count = s_log[j].plan.canary_count
            /\ s_log[i].plan.spot_count = s_log[j].plan.spot_count
            /\ (s_log[i].plan.canary_count >= 1 /\ FirstIndex(i) # FirstIndex(j)
                => s_log[i].plan.canary_indices # s_log[j].plan.canary_indices)
            /\ (s_req.n_items = 1 => Selection(i) = Selection(j))

\* C9 witness: two returned calls for different packages of more than one
\* item whose canary selections differ.
C9_Witness ==
    \E i \in Calls : \E j \in Calls :
        /\ OtherPackage(i, j)
        /\ s_req.n_items > 1
        /\ s_log[i].plan.canary_indices # s_log[j].plan.canary_indices

PkgSeedWith(environ, job_id, window, tier, epoch, hex, package_id) ==
    derive_pkg_seed(plan_job_seed(environ, job_id, window, tier, epoch, hex),
                    package_id)

\* The arguments of the calls made, and the same with another master key,
\* job_id, window, tier or secret_epoch in their place, one at a time and
\* all at once.
JobVariants ==
    LET made == [environ |-> s_key, job_id |-> s_req.job_id, window |-> s_req.window,
                 tier |-> s_req.tier, secret_epoch |-> s_req.secret_epoch]
    IN  {made,
         [made EXCEPT !.environ = <<"k2">>], [made EXCEPT !.job_id = "j2"],
         [made EXCEPT !.window = "w2"], [made EXCEPT !.tier = "t2"],
         [made EXCEPT !.secret_epoch = "e2"],
         [environ |-> <<"k2">>, job_id |-> "j2", window |-> "w2", tier |-> "t2",
          secret_epoch |-> "e2"]}

\* C12: when an explicit job seed is supplied, the package seed and the plan
\* that plan_sampling returns are unchanged by another job_id, window, tier,
\* secret_epoch or master key, and by spelling the seed with or without the
\* 0x prefix.
C12_ExplicitSeedReplacesDerived ==
    \A c \in Calls :
        s_req.job_seed_hex # "" =>
            /\ \A environ \in {<<>>, <<"k1">>, <<"k2">>} :
               \A job_id \in {"j1", "j2"} : \A window \in {"w1", "w2"} :
               \A tier \in {"t1", "t2"} : \A epoch \in {"e1", "e2"} :
               \A hex \in {"0xab", "ab"} :
                   PkgSeedWith(environ, job_id, window, tier, epoch, hex,
                               s_log[c].package_id) = s_log[c].pkg_seed
            /\ \A v \in JobVariants : \A hex \in {"0xab", "ab"} :
                   plan_sampling(s_prf, v.environ, v.job_id, v.window, v.tier,
                                 s_log[c].package_id, s_req.n_items, v.secret_epoch,
                                 hex, s_req.policy) = s_log[c].plan

\* C12 witness: a call with an explicit seed returned a plan with indices.
C12_Witness ==
    \E c \in Calls :
        /\ s_req.job_seed_hex # ""
        /\ s_log[c].plan.status = "returned"
        /\ s_log[c].plan.canary_indices # <<>>

\* list is a prefix of list2.
IsPrefix(list, list2) ==
    Len(list) <= Len(list2) /\ SubSeq(list2, 1, Len(list)) = list

\* The shorter of the two index lists of call c is a prefix of the longer.
ShorterIsPrefix(c) ==
    \/ IsPrefix(s_log[c].plan.canary_indices, s_log[c].plan.spot_indices)
    \/ IsPrefix(s_log[c].plan.spot_indices, s_log[c].plan.canary_indices)

\* C29 (as claimed): in every plan the shorter of canary_indices and
\* spot_indices is a prefix of the longer, the two sets are never disjoint,
\* and the first element of both is hmac_drbg(pkg_seed, 0) mod n_items, the
\* draw that decides dup_selected.
C29_SelectionsNeverDisjoint ==
    \A c \in Calls :
        s_log[c].plan.status = "returned" =>
            LET canary == s_log[c].plan.canary_indices
                spot == s_log[c].plan.spot_indices
            IN  /\ ShorterIsPrefix(c)
                /\ \E i \in DOMAIN canary : \E j \in DOMAIN spot : canary[i] = spot[j]
                /\ canary # <<>> /\ canary[1] = FirstIndex(c)
                /\ spot # <<>> /\ spot[1] = FirstIndex(c)

\* C29 (amended): in every plan the shorter of canary_indices and
\* spot_indices is a prefix of the longer, each list that is not empty
\* begins with hmac_drbg(pkg_seed, 0) mod n_items, the draw that decides
\* dup_selected, and a list is empty exactly when its count is 0: the two
\* sets are disjoint exactly when one of the counts is 0.
C29_SelectionsShareDraws ==
    \A c \in Calls :
        s_log[c].plan.status = "returned" =>
            LET canary == s_log[c].plan.canary_indices
                spot == s_log[c].plan.spot_indices
                draw == s_prf[s_log[c].pkg_seed][0]
            IN  /\ ShorterIsPrefix(c)
                /\ \A l \in {canary, spot} : l # <<>> => l[1] = draw % s_req.n_items
                /\ s_log[c].plan.dup_selected
                       = RatLess(<<draw, DigestSpace>>, s_req.policy.defaults.dup_rate)
                /\ (canary = <<>>) = (s_log[c].plan.canary_count = 0)
                /\ (spot = <<>>) = (s_log[c].plan.spot_count = 0)
                /\ (\E i \in DOMAIN canary : \E j \in DOMAIN spot : canary[i] = spot[j])
                       = (s_log[c].plan.canary_count > 0 /\ s_log[c].plan.spot_count > 0)

\* C29 witness: a returned plan with two canary indices and one spot index,
\* the spot index being the first canary index.
C29_Witness ==
    \E c \in Calls :
        /\ s_log[c].plan.status = "returned"
        /\ Len(s_log[c].plan.canary_indices) = 2
        /\ s_log[c].plan.spot_indices = <<s_log[c].plan.canary_indices[1]>>
        /\ s_log[c].plan.spot_indices[1] = FirstIndex(c)

\* C30 (as claimed): a call for another (job_id, window, tier,
\* secret_epoch) tuple, with the same master key and package, derives
\* another job seed, and with it another package seed, whether or not the
\* strings hold the character '|'.
C30_JobTuplesKeptApart ==
    \A c \in Calls :
        \A t \in JobRequests :
            <<t.job_id, t.window, t.tier, t.secret_epoch>>
                # <<s_req.job_id, s_req.window, s_req.tier, s_req.secret_epoch>>
            => /\ derive_job_seed(encode(environ_get(s_key, "dev_master_key")),
                                  t.job_id, t.window, t.tier, t.secret_epoch)
                  # derive_job_seed(encode(environ_get(s_key, "dev_master_key")),
                                    s_req.job_id, s_req.window, s_req.tier,
                                    s_req.secret_epoch)
               /\ PkgSeedWith(s_key, t.job_id, t.window, t.tier, t.secret_epoch, "",
                              s_log[c].package_id) # s_log[c].pkg_seed

\* C28 (as claimed): whenever the two roots differ, compare_canonical_fast
\* returns the verdict, the record count and the number of differences
\* that compare_canonical_streams returns on the same two contents read
\* from their beginning, seekable or not.
C28_FastAgreesWithSlowPass ==
    LET slow == compare_canonical_streams(Stream(stream_a.data, TRUE),
                                          Stream(stream_b.data, TRUE),
                                          c_req.schema_id, c_req.mode,
                                          c_req.rel_tol, c_req.max_ulp).res
    IN  (CompareDone /\ c_trace.entry = "fast" /\ c_trace.root_a # c_trace.root_b) =>
            /\ c_res.status = slow.status
            /\ c_res.equal = slow.equal
            /\ c_res.record_count = slow.record_count
            /\ c_res.differences = slow.differences

\* C27 (as claimed): the records canonicalize_cado_relations_jsonl writes
\* are in ascending order of (a, b, large_prime), and of two records with
\* the same a and b the one without large_prime comes before the one with
\* large_prime, whatever integer that large_prime is.
C27_MissingKeySortsFirst ==
    LET bytes == cz_out["a"].bytes
        starts == {i \in DOMAIN bytes : bytes[i] = LB}
        IntOf(tok) == CASE tok = "-2" -> -2 [] tok = "-1" -> -1
                        [] tok = "0" -> 0 [] tok = "1" -> 1
        b_of(i) == IntOf(bytes[i + 2][2])
        has_large_prime(i) == bytes[i + 3] # RB
        large_prime_of(i) == IntOf(bytes[i + 3][2])
    IN  ("a" \in DOMAIN cz_out /\ ~cz_out["a"].raised) =>
            \A i, j \in starts :
                i < j =>
                    /\ b_of(i) <= b_of(j)
                    /\ b_of(i) = b_of(j) =>
                          /\ has_large_prime(i) => has_large_prime(j)
                          /\ has_large_prime(i) =>
                                large_prime_of(i) <= large_prime_of(j)

\* The indices r % n of a sequence of draws in the order of their first
\* occurrence.
RECURSIVE FirstOccurrences(_, _)
FirstOccurrences(draws, n) ==
    IF draws = <<>> THEN <<>>
    ELSE LET before == FirstOccurrences(SubSeq(draws, 1, Len(draws) - 1), n)
             idx == draws[Len(draws)] % n
         IN  IF \E i \in DOMAIN before : before[i] = idx THEN before
             ELSE before \o <<idx>>

\* choose_indices has returned exactly min(k, population_size) indices, in
\* the order of first occurrence of the draws taken mod population_size.
ChoseRightCount ==
    LET firsts == FirstOccurrences(ci.draws, ci.population_size)
    IN  /\ ci.pc = "returned"
        /\ Len(ci.out) = Min(ci.k, ci.population_size)
        /\ Len(firsts) <= Len(ci.out)
        /\ SubSeq(ci.out, 1, Len(firsts)) = firsts
        /\ Len(ci.draws) < MaxDraws => ci.out = firsts

Overlap(row, vec) == {i \in DOMAIN row \cap DOMAIN vec : row[i] = "1" /\ vec[i] = "1"}

\* C13 (as claimed): verify_f2_matrix_vector fails with the row-length
\* error whenever some row, trimmed, has another length than the vector,
\* wherever that row stands and whatever the rows before it reduce to.
C13_RowLengthMismatchFails ==
    (/\ "verify" \in DOMAIN p_out
     /\ \E i \in DOMAIN p_rows : Len(strip(p_rows[i])) # Len(strip(p_vec)))
    => p_out["verify"] = "ValueError"

\* The matrix and the vector are bitstrings of one length.
BitMatrix ==
    /\ p_vec \in BitStrings
    /\ \A i \in DOMAIN p_rows : p_rows[i] \in BitStrings /\ Len(p_rows[i]) = Len(p_vec)

\* The vector with the bit at position pos flipped.
FlipBit(vec, pos) == [vec EXCEPT ![pos] = IF @ = "1" THEN "0" ELSE "1"]

\* C14: for bitstring rows and a bitstring vector of the same length,
\* verify_f2_matrix_vector returns true if and only if in every row the
\* number of positions with a 1 in both the row and the vector is even;
\* flipping a vector bit at a position where some row has a 1 turns a true
\* result into false.
C14_VerifiesIffAllRowsReduceToZero ==
    ("verify" \in DOMAIN p_out /\ BitMatrix)
    => /\ p_out["verify"] \in {"True", "False"}
       /\ (p_out["verify"] = "True")
             = (\A i \in DOMAIN p_rows : Cardinality(Overlap(p_rows[i], p_vec)) % 2 = 0)
       /\ \A pos \in DOMAIN p_vec :
             (/\ p_out["verify"] = "True"
              /\ \E i \in DOMAIN p_rows : p_rows[i][pos] = "1")
             => verify_f2_matrix_vector(p_rows, FlipBit(p_vec, pos)) = "False"

\* C14 witness: a matrix verified true in which a row and the vector share
\* two positions holding a 1.
C14_Witness ==
    /\ "verify" \in DOMAIN p_out
    /\ BitMatrix
    /\ p_out["verify"] = "True"
    /\ \E i \in DOMAIN p_rows : Cardinality(Overlap(p_rows[i], p_vec)) = 2

\* The rows of a matrix, each trimmed.
Trimmed(matrix_rows) == [i \in DOMAIN matrix_rows |-> strip(matrix_rows[i])]

\* C15 (as claimed): two row lists have the same commitment if and only if
\* they are equal as sequences after trimming each row; the empty list and
\* the list of one empty row included.
C15_CommitmentIffSameRows ==
    "hash" \in DOMAIN p_out =>
        \A other \in CommitMatrices :
            (hash_matrix_rows(other) = p_out["hash"]) = (Trimmed(other) = Trimmed(p_rows))

\* C15 (amended): two row lists have the same commitment if and only if
\* their trimmed rows joined by newlines are the same text: for rows
\* without inner newlines, if and only if they are equal as sequences after
\* trimming or each of them is the empty list or the list of one empty row.
C15_CommitmentIffSameJoinedText ==
    "hash" \in DOMAIN p_out =>
        \A other \in CommitMatrices :
            (hash_matrix_rows(other) = p_out["hash"])
            = (\/ Trimmed(other) = Trimmed(p_rows)
               \/ {Trimmed(other), Trimmed(p_rows)} \subseteq {<<>>, <<<<>>>>})

\* C15 witness: the commitment of a matrix of two rows, one of them with
\* whitespace around it.
C15_Witness ==
    /\ "hash" \in DOMAIN p_out
    /\ Len(p_rows) = 2
    /\ \E i \in DOMAIN p_rows : strip(p_rows[i]) # p_rows[i] /\ strip(p_rows[i]) # <<>>

(***************************************************************************)
(* Claims: ULP utility                                                     *)
(***************************************************************************)

\* C16 (as claimed): when either operand is NaN, ulp_distance returns a
\* distance that is at least ulp_distance(c, d) for every pair of values
\* c, d that are not NaN.
C16_NanIsFarthest ==
    (u_out # <<>> /\ (isnan(u_a) \/ isnan(u_b)))
    => \A c \in UlpInputs : \A d \in UlpInputs :
          (~isnan(c) /\ ~isnan(d)) => BigLeq(ulp_distance(c, d), u_out[1])

\* The place of a double that is not NaN among the representable values,
\* counted from zero: its sign and the low 63 bits of its pattern, the two
\* zeros having the same place.
Place(x) == [neg |-> x.sign = 1 /\ ~IsZero(x), mag |-> Low63(x)]

\* C24 (as claimed): on doubles that are not NaN _float_to_ordered_int is
\* monotonic, and ulp_distance is symmetric, 0 exactly for numerically equal
\* values (-0.0 and 0.0 among them) and 1 for every two numerically adjacent
\* values, the largest negative subnormal and a zero of either sign among
\* them.
C24_UlpDistanceOfNeighbours ==
    LET less(p, q) == SignedSub(p, q).neg
        apart(p, q) == SignedSub(p, q).mag
    IN  u_out # <<>> =>
            /\ less(Place(u_a), Place(u_b))
               => less(_float_to_ordered_int(u_a), _float_to_ordered_int(u_b))
            /\ ulp_distance(u_b, u_a) = u_out[1]
            /\ u_out[1] = <<>> <=> Place(u_a) = Place(u_b)
            /\ apart(Place(u_a), Place(u_b)) = <<1>> => u_out[1] = <<1>>

=============================================================================
